---- MODULE Spec2Model ----
(***************************************************************************)
(* Events recorder of one camera (scrypted-events-recorder).               *)
(*                                                                         *)
(* These machines share the module:                                        *)
(*   SpecName  the clip filename codec: getVideoClipName (util.ts) and the *)
(*             indexer's parseVideoClipFile (videoClipRegex + bitmap).     *)
(*   SpecShot  the single-shot recorder (one encoder per event), the       *)
(*             latest EventsRecorderMixin.                                 *)
(*   SpecSeg   the segment recorder (continuous capture + concat), the     *)
(*             first EventsRecorderMixin of src/eventsRecorderMixin.ts.    *)
(*   SpecShotOld  an earlier single-shot recorder, whose listener does     *)
(*             not filter while recording and whose extension is debounced.*)
(*   SpecMotion   SpecShot with the motion sensor and its two settings.    *)
(*   SpecEvict    scanFs and removeVideoClips on the clip folders.         *)
(*   SpecCatalog  indexFs and getVideoClips on the catalog.                *)
(* Strings are sequences of one-character strings; times are integer clock *)
(* readings, 0 standing for a field that is still undefined.               *)
(***************************************************************************)
EXTENDS Integers, Sequences, FiniteSets, TLC

VARIABLES
    \* ---- filename codec
    nmPhase,            \* "in" | "named" | "parsed" | "done"
    nmStart,            \* props.startTime
    nmEnd,              \* props.endTime
    nmClasses,          \* props.classesDetected (as a set)
    nmFilename,         \* `${getVideoClipName(...)}.mp4`
    nmParsed,           \* what parseVideoClipFile reads back
    nmAgain,            \* the parsed values encoded again
    \* ---- the clock and the plugin
    now,                \* Date.now()
    pluginEnabled,      \* plugin.storageSettings.values.pluginEnabled
    killed,
    \* ---- settings read by the session code
    clipDuration,       \* clipDurationInMs / 1000
    maxLength,
    minDelayBetweenClips,
    \* ---- fields of the mixin
    mainLoopListener,   \* the 10 s interval is armed
    running,
    detectionListener,  \* the ObjectDetector listener is registered
    classesMap,         \* the Map the registered listener closes over
    listeners,          \* ObjectDetector and MotionSensor listener pairs the
                        \* single-shot mixin has registered and not removed
    recording,
    lastClipRecordedTime,
    recordingTimeStart,
    saveRecordingListener,  \* the time the armed deadline fires at, 0: none
    classesDetected,
    saveFfmpegProcess,  \* the encoder the field refers to, 0: undefined
    \* ---- subprocesses, close handlers and files
    proc,               \* every per-event encoder spawned so far
    fin,                \* the onClose handler of each encoder
    tmpClip,            \* videoclips/tmp_clip.mp4 exists
    clips,              \* the clips written into videoclips/
    \* ---- the motion listener of the single-shot recorder
    lastMotionTrigger,
    prolongClipOnMotion,
    isMotionIncluded,   \* detectionClasses includes DetectionClass.Motion
    lastMotionAccepted, \* when the motion listener last let an event through,
                        \* 0: never (read by the properties)
    extendResets,       \* how often an Active session's deadline was re-armed
                        \* at the current clock reading (read by the properties)
    \* ---- the segment recorder only
    preEventSeconds,
    postEventSeconds,
    segmentsListener,   \* the interval of watchSegments is armed
    registered,         \* ObjectDetector listeners registered with the system
    forceClosedCapture,
    lastRunStart,
    lastExtendLogged,
    segmentsFfmpegProcess,  \* the capture the field refers to, 0: undefined
    capture,            \* every capture process spawned so far
    currentSegment,
    eventSegment,
    saveSegment,
    tmpFolder,          \* the indices NNN of the files tmp/segmentNNN.ts
    concats,            \* concat helpers (with their thumbnail) still running
    concatInput,        \* what the last saveVideoClip found and gave to concat
    \* ---- the clip store: folders, catalog and the calls working on them
    videoClipsFolder,   \* the names of the entries of videoclips/
    thumbnailsFolder,   \* the names, without .jpg, of the entries of thumbnails/
    scanData,           \* the catalog
    lastIndexFs,
    scan,               \* the locals and the position of a scanFs call
    removal,            \* the locals and the position of a removeVideoClips call
    videoclips,         \* what the last getVideoClips call returned
    indexing,           \* the locals and the position of an indexFs call
    closing,            \* the end of onClose: its position, its file and the
                        \* files it has finished with
    \* one call of stopCapture
    child,              \* the ChildProcess in segmentsFfmpegProcess
    stopping,           \* the position of the call and its forceKillTimeout
    \* the persisted process id
    processPid,         \* storageSettings.values.processPid, 0 for undefined
    boot,               \* the constructor's timeout: its position and what it did
    osLive,             \* the encoder processes alive in the operating system
    \* the main loops of several cameras
    cams,               \* per camera: its interval, its fields and the interval
                        \* callbacks that are at an await
    \* the plugin's occupancy
    mixinStorage,       \* deviceId -> the data of its last setMixinOccupancy
    totalData,          \* the totals the last call computed
    occupiedSpaceInGb,  \* the plugin setting and the upper end of its range
    reported            \* deviceId -> the occupied value of its last report,
                        \* and whether it had reported before

nameVars == <<nmPhase, nmStart, nmEnd, nmClasses, nmFilename, nmParsed, nmAgain>>

envVars == <<now, pluginEnabled, killed>>

cfgVars == <<clipDuration, maxLength, minDelayBetweenClips>>

listenerVars == <<mainLoopListener, running, detectionListener, classesMap,
                  listeners>>

sessionVars == <<recording, lastClipRecordedTime, recordingTimeStart,
                 saveRecordingListener, classesDetected, saveFfmpegProcess>>

procVars == <<proc, fin, tmpClip, clips>>

motionVars == <<lastMotionTrigger, prolongClipOnMotion, isMotionIncluded,
               lastMotionAccepted>>

shotVars == <<envVars, cfgVars, listenerVars, sessionVars, procVars, motionVars,
              extendResets>>

segVars == <<preEventSeconds, postEventSeconds, segmentsListener, registered,
             forceClosedCapture, lastRunStart, lastExtendLogged,
             segmentsFfmpegProcess, capture, currentSegment, eventSegment,
             saveSegment, tmpFolder, concats, concatInput>>

catalogVars == <<scanData, lastIndexFs, videoclips>>

raceVars == <<indexing, closing>>

fsVars == <<videoClipsFolder, thumbnailsFolder, scan, removal, catalogVars, raceVars>>

stopVars == <<child, stopping>>

\* the machines that follow one call or one handler
pidVars == <<processPid, boot, osLive>>

occVars == <<mixinStorage, totalData, occupiedSpaceInGb, reported>>

sideVars == <<stopVars, pidVars, cams, occVars>>

\* what the single-shot recorder never touches
offShot == <<nameVars, segVars, fsVars, sideVars>>

\* what the segment recorder never touches
offSeg == <<nameVars, clipDuration, minDelayBetweenClips, classesMap, listeners,
            lastClipRecordedTime, saveFfmpegProcess, proc, fin, tmpClip,
            motionVars, extendResets, fsVars, sideVars>>

\* what the earlier single-shot recorder never touches
offOld == <<nameVars, minDelayBetweenClips, classesMap, lastClipRecordedTime,
            preEventSeconds, postEventSeconds, segmentsListener, registered,
            forceClosedCapture, lastRunStart, segmentsFfmpegProcess, capture,
            currentSegment, eventSegment, saveSegment, tmpFolder, concats,
            concatInput, motionVars, extendResets, fsVars, sideVars>>

\* what the calls on the clip store never touch
offFs == <<nameVars, shotVars, segVars, raceVars, sideVars>>

\* what onClose and indexFs never touch
offRace == <<nameVars, shotVars, segVars, sideVars>>

\* what a call of stopCapture never touches
offStop == <<nameVars, pluginEnabled, killed, cfgVars, listenerVars, sessionVars,
             procVars, motionVars, extendResets, segVars, fsVars, pidVars, cams,
             occVars>>

\* what the startup and the spawns that follow it never touch
offPid == <<nameVars, now, pluginEnabled, cfgVars, classesMap, listeners, recording,
            lastClipRecordedTime, recordingTimeStart, saveRecordingListener,
            classesDetected, procVars, motionVars, extendResets, segVars, fsVars,
            stopVars, cams, occVars>>

\* what the main loops of the cameras never touch
offTick == <<nameVars, killed, cfgVars, listenerVars, sessionVars, procVars,
             motionVars, extendResets, segVars, fsVars, stopVars, pidVars,
             occVars>>

\* what setMixinOccupancy never touches
offOcc == <<nameVars, shotVars, segVars, fsVars, stopVars, pidVars, cams>>

vars == <<nameVars, shotVars, segVars, fsVars, sideVars>>

-----------------------------------------------------------------------------
(* Bounds *)

\* clock readings given to the filename codec: 0..MaxNameTime
MaxNameTime == 10

\* the clock of the recorders runs over 1..MaxTime
MaxTime == 3

\* the clock of the runs that vary the detected classes: 1..MaxTimeClasses
MaxTimeClasses == 3

\* per-event encoders spawned in one run
MaxProc == 2

\* settings are drawn from 1..MaxClipDuration, 1..MaxMaxLength and
\* 0..MaxMinDelay (seconds)
MaxClipDuration == 2
MaxMaxLength == 3
MaxMinDelay == 1

\* the last clock reading of the recorder with its motion sensor
MaxTimeMotion == 2

\* extendResets counts up to this and stays there
MaxExtendResets == 2

\* the most clips a folder of the clip store starts with
MaxClips == 12

\* the clock of the runs in which onClose gives up: 1..MaxTimeLost
MaxTimeLost == 11

\* the cameras that report their occupancy
MaxReporters == 3

\* the cameras with a main loop
MaxCameras == 2

\* the interval callbacks of one camera followed at the same time
MaxCalls == 2

\* the clock of the main loops: 1..MaxTickTime
MaxTickTime == 3

\* the process ids the operating system hands out: 1..MaxPid
MaxPid == 3

\* the clock of the runs of stopCapture: 1..MaxStopTime
MaxStopTime == 9

\* the clips finalized beside indexFs
MaxRaceClips == 3

\* the latest time a getVideoClips call asks for
MaxQueryTime == 5

\* the clock of the segment recorder runs over 1..MaxSegTime
MaxSegTime == 3

\* capture processes spawned in one run, segment files one capture writes
\* (indices 0..MaxSegment), concat helpers running at once, ObjectDetector
\* listeners registered at once
MaxCapture == 3
MaxSegment == 1
MaxConcat == 1
MaxRegistered == 2

\* the settings of the segment recorder: preEventSeconds is drawn from
\* 0..MaxPreEvent; postEventSeconds and maxLength are two thirds of a clip
\* length apart
MaxPreEvent == 1
SegPostEvent == 2
SegMaxLength == 3

-----------------------------------------------------------------------------
(* Detection classes (util.ts) *)

\* the keys of detectionClassIndex, in insertion order
KnownClasses == <<"motion", "person", "vehicle", "animal", "face", "plate", "package">>

KnownClassSet == {KnownClasses[i] : i \in 1..Len(KnownClasses)}

\* a class name the index does not know (any other string of classesDetected)
OtherClass == "other"

AllClasses == KnownClassSet \cup {OtherClass}

\* mutant: vehicle and animal share slot 3
detectionClassIndex_swapped(c) ==
    CASE c = "motion" -> 0 [] c = "person" -> 1 [] c = "vehicle" -> 3
      [] c = "animal" -> 3 [] c = "face" -> 4 [] c = "plate" -> 5
      [] c = "package" -> 6

detectionClassIndex(c) ==
    CASE c = "motion" -> 0 [] c = "person" -> 1 [] c = "vehicle" -> 2
      [] c = "animal" -> 3 [] c = "face" -> 4 [] c = "plate" -> 5
      [] c = "package" -> 6

\* detectionClassIndexReversed[index]; undefined for an index without a class
detectionClassIndexReversed(i) ==
    IF \E c \in KnownClassSet : detectionClassIndex(c) = i
    THEN CHOOSE c \in KnownClassSet : detectionClassIndex(c) = i
    ELSE "undefined"

-----------------------------------------------------------------------------
(* Number <-> string, as template literals and Number() do for integers *)

DigitChars == <<"0", "1", "2", "3", "4", "5", "6", "7", "8", "9">>

IsDigit(ch) == \E d \in 1..10 : DigitChars[d] = ch

DigitValue(ch) == (CHOOSE d \in 1..10 : DigitChars[d] = ch) - 1

RECURSIVE NumberToString(_)
NumberToString(n) ==
    IF n < 10 THEN <<DigitChars[n + 1]>>
    ELSE NumberToString(n \div 10) \o <<DigitChars[(n % 10) + 1]>>

NaN == -1

RECURSIVE DigitsValue(_)
DigitsValue(s) ==
    IF Len(s) = 0 THEN 0
    ELSE 10 * DigitsValue(SubSeq(s, 1, Len(s) - 1)) + DigitValue(s[Len(s)])

\* Number(str): the empty string is 0, a digit string its value, anything else NaN
Number(s) ==
    IF \A i \in 1..Len(s) : IsDigit(s[i]) THEN DigitsValue(s) ELSE NaN

-----------------------------------------------------------------------------
(* getVideoClipName *)

HashLength == 10

\* mutant: the motion flag is set only when motion was detected
detectionsHash_noMotion(classes) ==
    [i \in 1..HashLength |->
        IF \E c \in KnownClassSet :
              /\ detectionClassIndex(c) = i - 1
              /\ c \in classes
        THEN "1" ELSE "0"]

\* detectionsHashComponents.join(''): new Array(10).fill(0), then a 1 at the
\* index of every known class that is in classesDetected or is motion
detectionsHash(classes) ==
    [i \in 1..HashLength |->
        IF \E c \in KnownClassSet :
              /\ detectionClassIndex(c) = i - 1
              /\ (c \in classes \/ c = "motion")
        THEN "1" ELSE "0"]

getVideoClipName(startTime, endTime, classes) ==
    NumberToString(startTime) \o <<"_">> \o NumberToString(endTime)
        \o <<"_">> \o detectionsHash(classes)

Mp4 == <<".", "m", "p", "4">>

-----------------------------------------------------------------------------
(* videoClipRegex: three greedy any-text groups separated by "_", then any *)
(* one character and "mp4"; String.match                                  *)

Max(S) == CHOOSE x \in S : \A y \in S : y <= x

\* ends k of group 3 = s[a..k]: any one character, then "mp4"
RegexEnds3(s, a) ==
    {k \in (a - 1)..(Len(s) - 4) :
        /\ s[k + 2] = "m" /\ s[k + 3] = "p" /\ s[k + 4] = "4"}

\* places j >= a of the second "_" after which group 3 can match
RegexSeps2(s, a) ==
    {j \in a..Len(s) : s[j] = "_" /\ RegexEnds3(s, j + 1) # {}}

\* places i >= a of the first "_" after which the rest can match
RegexSeps1(s, a) ==
    {i \in a..Len(s) : s[i] = "_" /\ RegexSeps2(s, i + 1) # {}}

\* the match array [_, g1, g2, g3], or <<>> for null. The match starts at the
\* first place from which one exists and every group is greedy.
videoClipRegexMatch(s) ==
    IF RegexSeps1(s, 1) = {} THEN <<>>
    ELSE LET i == Max(RegexSeps1(s, 1))
             j == Max(RegexSeps2(s, i + 1))
             k == Max(RegexEnds3(s, j + 1))
         IN  <<SubSeq(s, 1, k + 4), SubSeq(s, 1, i - 1),
               SubSeq(s, i + 1, j - 1), SubSeq(s, j + 1, k)>>

\* parseVideoClipFile, the fields taken from the name
parseVideoClipFile(videoClipName) ==
    LET m == videoClipRegexMatch(videoClipName)
        hash == m[4]
    IN  [startTime |-> Number(m[2]),
         endTime |-> Number(m[3]),
         detectionClasses |->
            {detectionClassIndexReversed(i - 1) :
                i \in {x \in 1..Len(hash) : hash[x] = "1"}}]

-----------------------------------------------------------------------------
(* The single-shot recorder: settings and inputs *)

Procs == 1..MaxProc

\* scoreThreshold (default 0.7) and detection scores, in hundredths
scoreThreshold == 70

Scores == {65, 75}

\* ignoreCameraDetections (default true)
ignoreCameraDetections == TRUE

\* detectionClasses (default: defaultClasses, which leaves motion out)
detectionClasses == KnownClassSet \ {"motion"}

\* the detections of the given classes
Detections(classNames) ==
    [className : classNames, score : Scores, boundingBox : BOOLEAN]

\* data.detections of one detection, all of one class apart from unknown ones
Batches == {{d} : d \in Detections({"person", OtherClass})}

\* data.detections of one or two detections of two classes
BatchesClasses ==
    LET D == Detections({"person", "vehicle"})
    IN  {{d} : d \in D} \cup
        {{d, e} : d \in {x \in D : x.className = "person"},
                  e \in {x \in D : x.className = "vehicle"}}

\* detectionClassesDefaultMap[det.className]: undefined for an unknown name
detectionClassesDefaultMap(className) ==
    IF className \in KnownClassSet THEN className ELSE "undefined"

\* objectDetectionClasses of startListeners
objectDetectionClasses == detectionClasses \ {"motion"}

\* the filter of the detection listener
\* mutant: the score is not compared with the threshold
DetectionPasses_anyScore(det) ==
    LET classname == detectionClassesDefaultMap(det.className)
    IN  /\ ~(ignoreCameraDetections /\ ~det.boundingBox)
        /\ classname # "undefined"
        /\ classname \in objectDetectionClasses

DetectionPasses(det) ==
    LET classname == detectionClassesDefaultMap(det.className)
    IN  /\ ~(ignoreCameraDetections /\ ~det.boundingBox)
        /\ classname # "undefined"
        /\ classname \in objectDetectionClasses
        /\ det.score >= scoreThreshold

\* the classes of the detections of a batch that pass the filter
Filtered(batch) ==
    {detectionClassesDefaultMap(d.className) : d \in {x \in batch : DetectionPasses(x)}}

-----------------------------------------------------------------------------
(* The single-shot recorder: state *)

\* an encoder: not yet spawned, running, sent SIGINT, or closed. startedAt is
\* the clock reading of its spawn and accepted collects the classes the filter
\* let through for its session (both are read only by the properties).
NoProc == [state |-> "unborn", startedAt |-> 0, accepted |-> {}]

\* the locals of one onClose call: where it is, endTime, currentChecks
NoFin == [pc |-> "none", endTime |-> 0, currentChecks |-> 0]

\* the while loop of onClose gives up after this many checks
MaxChecks == 10

\* sleep(5000) between two checks, in clock units
CheckSleep == 1

\* a check of the while loop of onClose is due
CheckDue(p) ==
    /\ fin[p].pc = "wait"
    /\ now >= fin[p].endTime + fin[p].currentChecks * CheckSleep

ShotIdle ==
    /\ now = 1
    /\ pluginEnabled = TRUE
    /\ killed = FALSE
    /\ mainLoopListener = FALSE
    /\ running = FALSE
    /\ detectionListener = FALSE
    /\ classesMap = {}
    /\ listeners = 0
    /\ recording = FALSE
    /\ lastClipRecordedTime = 0
    /\ recordingTimeStart = 0
    /\ saveRecordingListener = 0
    /\ classesDetected = {}
    /\ saveFfmpegProcess = 0
    /\ proc = [p \in Procs |-> NoProc]
    /\ fin = [p \in Procs |-> NoFin]
    /\ tmpClip = FALSE
    /\ clips = {}
    /\ lastMotionTrigger = 0
    /\ lastMotionAccepted = 0
    /\ prolongClipOnMotion = FALSE
    /\ isMotionIncluded = FALSE
    /\ extendResets = 0

\* the state once the constructor's timeout has run init() and
\* startCheckInterval(): the interval is armed, nothing else is
ShotInit ==
    /\ now = 1
    /\ pluginEnabled = TRUE
    /\ killed = FALSE
    /\ clipDuration \in 1..MaxClipDuration
    /\ maxLength \in 1..MaxMaxLength
    /\ minDelayBetweenClips \in 0..MaxMinDelay
    /\ mainLoopListener = TRUE
    /\ running = FALSE
    /\ detectionListener = FALSE
    /\ classesMap = {}
    /\ listeners = 0
    /\ recording = FALSE
    /\ lastClipRecordedTime = 0
    /\ recordingTimeStart = 0
    /\ saveRecordingListener = 0
    /\ classesDetected = {}
    /\ saveFfmpegProcess = 0
    /\ proc = [p \in Procs |-> NoProc]
    /\ fin = [p \in Procs |-> NoFin]
    /\ tmpClip = FALSE
    /\ clips = {}
    /\ lastMotionTrigger = 0
    /\ lastMotionAccepted = 0
    /\ extendResets = 0

-----------------------------------------------------------------------------
(* The single-shot recorder: operations *)

\* restartTimeout: the pending timeout is cleared and a new one armed
restartTimeout(t) == t + clipDuration

\* mutant: any event of a session shorter than maxLength extends it
shouldExtend_maxOnly(currentDuration) == currentDuration < maxLength

\* mutant: an Active session is never extended
shouldExtend_never(currentDuration) == FALSE

\* triggerMotionRecording, else branch: shouldExtend
shouldExtend(currentDuration) == currentDuration + clipDuration < maxLength

\* mutant: a trigger starts a session whenever none is recording
tooEarly_never(t) == FALSE

\* triggerMotionRecording: the minimum delay between clips
tooEarly(t) ==
    /\ lastClipRecordedTime # 0
    /\ (t - lastClipRecordedTime) < minDelayBetweenClips

Min(a, b) == IF a <= b THEN a ELSE b

\* the encoder a new session would spawn
NextProc ==
    CHOOSE p \in Procs :
        /\ proc[p].state = "unborn"
        /\ \A q \in Procs : proc[q].state = "unborn" => p <= q

CanSpawn == \E p \in Procs : proc[p].state = "unborn"

\* triggerMotionRecording(triggers) with startVideoclipRecording and
\* restartTimeout; accepted are the classes this trigger's batch passed
triggerMotionRecording(accepted, cd) ==
    IF ~recording
    THEN IF tooEarly(now)
         THEN /\ classesDetected' = cd
              /\ UNCHANGED <<recording, lastClipRecordedTime, recordingTimeStart,
                             saveRecordingListener, saveFfmpegProcess, procVars,
                             extendResets>>
         ELSE /\ CanSpawn
              /\ lastClipRecordedTime' = 0
              /\ recordingTimeStart' = now
              /\ recording' = TRUE
              /\ saveFfmpegProcess' = NextProc
              /\ proc' = [proc EXCEPT ![NextProc] =
                            [state |-> "running", startedAt |-> now,
                             accepted |-> accepted]]
              /\ saveRecordingListener' = restartTimeout(now)
              /\ classesDetected' = cd
              /\ UNCHANGED <<fin, tmpClip, clips, extendResets>>
    ELSE /\ saveRecordingListener' =
                IF shouldExtend(now - recordingTimeStart)
                THEN restartTimeout(now) ELSE saveRecordingListener
         /\ extendResets' =
                IF shouldExtend(now - recordingTimeStart)
                THEN Min(extendResets + 1, MaxExtendResets) ELSE extendResets
         /\ proc' = [proc EXCEPT ![saveFfmpegProcess].accepted = @ \cup accepted]
         /\ classesDetected' = cd
         /\ UNCHANGED <<recording, lastClipRecordedTime, recordingTimeStart,
                        saveFfmpegProcess, fin, tmpClip, clips>>

\* the ObjectDetector listener registered by startListeners
ObjectsDetected(batch) ==
    /\ detectionListener
    /\ LET map == classesMap \cup Filtered(batch)
       IN  /\ classesMap' = map
           /\ IF Filtered(batch) = {}
              THEN UNCHANGED <<sessionVars, procVars, lastMotionTrigger, extendResets>>
              ELSE /\ lastMotionTrigger' = now
                   /\ triggerMotionRecording(Filtered(batch), classesDetected \cup map)
    /\ UNCHANGED <<envVars, cfgVars, mainLoopListener, running, detectionListener,
                   listeners, prolongClipOnMotion, isMotionIncluded,
                   lastMotionAccepted, offShot>>

\* the debounce of the motion listener
MotionDebounced(t) ==
    /\ lastMotionTrigger # 0
    /\ (t - lastMotionTrigger) < 1

\* mutant: prolongClipOnMotion lets a motion event start a session as well
MotionTriggers_prolongAlways == isMotionIncluded \/ prolongClipOnMotion

\* the motion listener: whether the event goes on to triggerMotionRecording
MotionTriggers == isMotionIncluded \/ (prolongClipOnMotion /\ recording)

\* the MotionSensor listener registered by startListeners; it is registered
\* and removed by the same calls as the ObjectDetector listener
MotionDetected(data) ==
    /\ detectionListener
    /\ IF data /\ ~MotionDebounced(now)
       THEN /\ lastMotionTrigger' = now
            /\ lastMotionAccepted' = now
            /\ IF MotionTriggers
               THEN triggerMotionRecording({"motion"}, classesDetected \cup {"motion"})
               ELSE /\ classesDetected' = classesDetected \cup {"motion"}
                    /\ UNCHANGED <<recording, lastClipRecordedTime, recordingTimeStart,
                                   saveRecordingListener, saveFfmpegProcess, procVars,
                                   extendResets>>
       ELSE UNCHANGED <<sessionVars, procVars, lastMotionTrigger, lastMotionAccepted,
                        extendResets>>
    /\ UNCHANGED <<envVars, cfgVars, listenerVars, prolongClipOnMotion,
                   isMotionIncluded, offShot>>

\* the deadline: stopSaveViddeoClip sends SIGINT to the encoder of the field
DeadlineFires ==
    /\ saveRecordingListener # 0
    /\ saveRecordingListener <= now
    /\ saveRecordingListener' = 0
    /\ proc' = IF proc[saveFfmpegProcess].state = "running"
               THEN [proc EXCEPT ![saveFfmpegProcess].state = "signalled"]
               ELSE proc
    /\ UNCHANGED <<envVars, cfgVars, listenerVars, recording, lastClipRecordedTime,
                   recordingTimeStart, classesDetected, saveFfmpegProcess,
                   fin, tmpClip, clips, motionVars, extendResets, offShot>>

\* a running encoder creates its output file
EncoderWrites(p) ==
    /\ proc[p].state = "running"
    /\ ~tmpClip
    /\ tmpClip' = TRUE
    /\ UNCHANGED <<envVars, cfgVars, listenerVars, sessionVars, proc, fin, clips, motionVars, extendResets, offShot>>

\* 'close' of an encoder, after SIGINT ("closed") or on its own ("crashed"):
\* onClose up to its first await
EncoderCloses(p) ==
    /\ proc[p].state \in {"running", "signalled"}
    /\ now > proc[p].startedAt
    /\ proc' = [proc EXCEPT ![p].state = IF proc[p].state = "signalled"
                                      THEN "closed" ELSE "crashed"]
    /\ recording' = FALSE
    /\ lastClipRecordedTime' = now
    /\ fin' = [fin EXCEPT ![p] = [pc |-> "wait", endTime |-> now, currentChecks |-> 0]]
    /\ UNCHANGED <<envVars, cfgVars, listenerVars, recordingTimeStart,
                   saveRecordingListener, classesDetected, saveFfmpegProcess,
                   tmpClip, clips, motionVars, extendResets, offShot>>

\* the clip onClose renames the temp file to: what its name says, the encoder
\* it came from and that encoder's session
ClipOf(p) ==
    LET name == getVideoClipName(recordingTimeStart, fin[p].endTime,
                                 classesDetected) \o Mp4
        parsed == parseVideoClipFile(name)
    IN  [startTime |-> parsed.startTime,
         endTime |-> parsed.endTime,
         detectionClasses |-> parsed.detectionClasses,
         by |-> p,
         sessionStart |-> proc[p].startedAt,
         accepted |-> proc[p].accepted]

\* one pass of the while loop of onClose: the file is there and is renamed,
\* or the check is counted and the handler sleeps or gives up
FinalizeCheck(p) ==
    /\ CheckDue(p)
    /\ IF tmpClip
       THEN /\ clips' = clips \cup {ClipOf(p)}
            /\ tmpClip' = FALSE
            /\ fin' = [fin EXCEPT ![p].pc = "thumb"]
       ELSE /\ fin' = [fin EXCEPT ![p].currentChecks = @ + 1,
                                  ![p].pc = IF fin[p].currentChecks + 1 < MaxChecks
                                            THEN "wait" ELSE "lost"]
            /\ UNCHANGED <<tmpClip, clips>>
    /\ UNCHANGED <<envVars, cfgVars, listenerVars, sessionVars, proc, motionVars, extendResets, offShot>>

\* saveThumbnail resolves: the rest of onClose
FinalizeThumbnail(p) ==
    /\ fin[p].pc = "thumb"
    /\ classesDetected' = {}
    /\ saveRecordingListener' = 0
    /\ fin' = [fin EXCEPT ![p].pc = "done"]
    /\ UNCHANGED <<envVars, cfgVars, listenerVars, recording, lastClipRecordedTime,
                   recordingTimeStart, saveFfmpegProcess, proc, tmpClip, clips, motionVars, extendResets, offShot>>

\* resetListeners(props) on the listener fields and the deadline
resetListeners_keepsListeners(skipMainLoop, skipDetectionListener) ==
    /\ running' = FALSE
    /\ mainLoopListener' = IF skipMainLoop THEN mainLoopListener ELSE FALSE
    /\ detectionListener' = detectionListener
    /\ listeners' = listeners
    /\ saveRecordingListener' = 0

resetListeners(skipMainLoop, skipDetectionListener) ==
    /\ running' = FALSE
    /\ mainLoopListener' = IF skipMainLoop THEN mainLoopListener ELSE FALSE
    /\ detectionListener' = IF skipDetectionListener THEN detectionListener ELSE FALSE
    /\ listeners' = IF ~skipDetectionListener /\ detectionListener
                    THEN listeners - 1 ELSE listeners
    /\ saveRecordingListener' = 0

\* startListeners: resetListeners({ skipMainLoop: true }), then the two
\* listeners are registered
startListeners ==
    /\ running' = TRUE
    /\ mainLoopListener' = mainLoopListener
    /\ detectionListener' = TRUE
    /\ listeners' = (IF detectionListener THEN listeners - 1 ELSE listeners) + 1
    /\ classesMap' = {}
    /\ saveRecordingListener' = 0

\* one run of the interval callback of startCheckInterval
MainLoopTick ==
    /\ mainLoopListener
    /\ IF killed
       THEN resetListeners(FALSE, FALSE) /\ UNCHANGED classesMap
       ELSE IF ~pluginEnabled
            THEN resetListeners(TRUE, FALSE) /\ UNCHANGED classesMap
            ELSE IF ~running
                 THEN startListeners
                 ELSE UNCHANGED <<listenerVars, saveRecordingListener>>
    /\ UNCHANGED <<envVars, cfgVars, recording, lastClipRecordedTime,
                   recordingTimeStart, classesDetected, saveFfmpegProcess, procVars,
                   motionVars, extendResets, offShot>>

\* release()
release ==
    /\ ~killed
    /\ killed' = TRUE
    /\ resetListeners(FALSE, FALSE)
    /\ UNCHANGED <<now, pluginEnabled, cfgVars, classesMap, recording,
                   lastClipRecordedTime, recordingTimeStart, classesDetected,
                   saveFfmpegProcess, procVars, motionVars, extendResets, offShot>>

\* the operator switches the plugin off or on
SetPluginEnabled ==
    /\ pluginEnabled' = ~pluginEnabled
    /\ UNCHANGED <<now, killed, cfgVars, listenerVars, sessionVars, procVars, motionVars, extendResets, offShot>>

\* the clock moves on; a due timeout or file check runs before it does
AdvanceTime(horizon) ==
    /\ now < horizon
    /\ ~(saveRecordingListener # 0 /\ saveRecordingListener <= now)
    /\ \A p \in Procs : ~CheckDue(p)
    /\ now' = now + 1
    /\ extendResets' = 0
    /\ UNCHANGED <<pluginEnabled, killed, cfgVars, listenerVars, sessionVars, procVars,
                   motionVars, offShot>>

ShotNextOn(batches, horizon) ==
    \/ \E batch \in batches : ObjectsDetected(batch)
    \/ DeadlineFires
    \/ \E p \in Procs : EncoderWrites(p)
    \/ \E p \in Procs : EncoderCloses(p)
    \/ \E p \in Procs : FinalizeCheck(p)
    \/ \E p \in Procs : FinalizeThumbnail(p)
    \/ MainLoopTick
    \/ release
    \/ SetPluginEnabled
    \/ AdvanceTime(horizon)

\* an undefined segment field (currentSegment, eventSegment, saveSegment)
Undefined == -1

\* a capture process: not yet spawned, alive or exited; next is the index of
\* the segment file it opens next, pending says that its "Opening ... for
\* writing" line has not reached the stderr handler yet
NoCapture == [state |-> "unborn", next |-> 0, pending |-> FALSE]

Captures == 1..MaxCapture

\* no saveVideoClip has run yet
NoConcat == [allSegments |-> {}, eventSegment |-> Undefined,
             saveSegment |-> Undefined, segments |-> <<>>]

\* the fields of the segment recorder before anything has run
SegIdle ==
    /\ preEventSeconds = 0
    /\ postEventSeconds = 0
    /\ segmentsListener = FALSE
    /\ registered = 0
    /\ forceClosedCapture = FALSE
    /\ lastRunStart = 0
    /\ lastExtendLogged = 0
    /\ segmentsFfmpegProcess = 0
    /\ capture = [p \in Captures |-> NoCapture]
    /\ currentSegment = Undefined
    /\ eventSegment = Undefined
    /\ saveSegment = Undefined
    /\ tmpFolder = {}
    /\ concats = 0
    /\ concatInput = NoConcat

\* no scanFs call: its position and locals
NoScan == [pc |-> "idle", i |-> 0, fileDetails |-> <<>>, freeMemory |-> 0,
           error |-> "none", failed |-> {}, files |-> {}, thumbnails |-> {}]

\* no removeVideoClips call
NoRemoval == [pc |-> "idle", i |-> 0, videoClipIds |-> <<>>, error |-> "none"]

\* no getVideoClips call yet
NoQuery == [options |-> <<>>, clips |-> {}]

\* a MixinStorage of zeros
NoTotal == [free |-> 0, occupied |-> 0, total |-> 0]

\* the plugin before any camera has reported
OccIdle ==
    /\ mixinStorage = <<>>
    /\ totalData = NoTotal
    /\ occupiedSpaceInGb = [value |-> 0, range |-> 0]
    /\ reported = <<>>

\* the cameras the plugin is mixed into
Cameras == 1..MaxCameras

\* the awaits of the interval callback that wait for the file system
TickAwaits == {"indexFs", "scanFs"}

\* a camera before startCheckInterval: no interval, no callback at an await;
\* caught and ranAfterCatch record that an error reached the catch of the
\* callback and that the interval fired after that
NoCam == [armed |-> FALSE, next |-> 0, killed |-> FALSE, running |-> FALSE,
          lastIndexFs |-> FALSE, lastScanFs |-> FALSE,
          calls |-> [a \in TickAwaits |-> 0],
          caught |-> FALSE, ranAfterCatch |-> FALSE]

\* the constructor's timeout has not run: where it is, the process id it
\* called process.kill with, whether that call threw, whether it has cleared
\* the setting
NoBoot == [pc |-> "timeout", killCalled |-> 0, failed |-> FALSE, cleared |-> FALSE]

\* the constructor's timeout has run, with no process id persisted
Booted == [pc |-> "done", killCalled |-> 0, failed |-> FALSE, cleared |-> TRUE]

\* no subprocess has been spawned
NoChild == [state |-> "none", killed |-> FALSE]

\* no call of stopCapture is running
NoStopping == [pc |-> "idle", forceKillTimeout |-> 0]

\* no call or handler is being followed
SideIdle ==
    /\ child = NoChild
    /\ stopping = NoStopping
    /\ processPid = 0
    /\ boot = Booted
    /\ osLive = {}
    /\ cams = [c \in Cameras |-> NoCam]
    /\ OccIdle

\* no indexFs call is running
NoIndexing == [pc |-> "idle", filteredEntries |-> {}]

\* no onClose is past its rename
NoClosing == [pc |-> "idle", filename |-> <<>>, finalized |-> {}]

\* the clip store before anything was recorded
FsIdle ==
    /\ videoClipsFolder = {}
    /\ thumbnailsFolder = {}
    /\ scanData = {}
    /\ lastIndexFs = 0
    /\ scan = NoScan
    /\ removal = NoRemoval
    /\ videoclips = NoQuery
    /\ indexing = NoIndexing
    /\ closing = NoClosing
    /\ SideIdle

\* the filename codec at rest
NameIdle ==
    /\ nmPhase = "in" /\ nmStart = 0 /\ nmEnd = 0 /\ nmClasses = {}
    /\ nmFilename = <<>>
    /\ nmParsed = [startTime |-> 0, endTime |-> 0, detectionClasses |-> {}]
    /\ nmAgain = <<>>

ShotNext == ShotNextOn(Batches, MaxTime)

\* the defaults: prolongClipOnMotion unset, detectionClasses without motion
MotionOff ==
    /\ prolongClipOnMotion = FALSE
    /\ isMotionIncluded = FALSE

ShotSpecInit == ShotInit /\ MotionOff /\ NameIdle /\ SegIdle /\ FsIdle

\* the single-shot recorder over every setting within the bounds, fed
\* detections of one class
SpecShot == ShotSpecInit /\ [][ShotNext]_vars

ShotClassesInit ==
    /\ ShotInit
    /\ MotionOff
    /\ FsIdle
    /\ NameIdle
    /\ SegIdle
    /\ clipDuration = 1
    /\ maxLength = 2

ShotClassesNext == ShotNextOn(BatchesClasses, MaxTimeClasses)

MotionInit ==
    /\ ShotInit
    /\ FsIdle
    /\ NameIdle
    /\ SegIdle
    /\ clipDuration = 1
    /\ maxLength = 3
    /\ prolongClipOnMotion \in BOOLEAN
    /\ isMotionIncluded \in BOOLEAN

MotionShotNext == ShotNextOn(Batches, MaxTimeMotion)

MotionNext ==
    \/ \E data \in BOOLEAN : MotionDetected(data)
    \/ MotionShotNext

\* the single-shot recorder with its motion sensor, over the motion settings
SpecMotion == MotionInit /\ [][MotionNext]_vars

\* the single-shot recorder with a short deadline, fed detections of two classes
SpecShotClasses == ShotClassesInit /\ [][ShotClassesNext]_vars

\* data.detections of one person above the threshold
LostBatches == {{[className |-> "person", score |-> 75, boundingBox |-> TRUE]}}

LostInit ==
    /\ ShotInit
    /\ MotionOff
    /\ FsIdle
    /\ NameIdle
    /\ SegIdle
    /\ clipDuration = 1
    /\ maxLength = 1
    /\ minDelayBetweenClips = 0

\* the plugin stays enabled
LostNext ==
    \/ \E batch \in LostBatches : ObjectsDetected(batch)
    \/ DeadlineFires
    \/ \E p \in Procs : EncoderWrites(p)
    \/ \E p \in Procs : EncoderCloses(p)
    \/ \E p \in Procs : FinalizeCheck(p)
    \/ \E p \in Procs : FinalizeThumbnail(p)
    \/ MainLoopTick
    \/ release
    \/ AdvanceTime(MaxTimeLost)

\* the single-shot recorder followed long enough for onClose to give up
SpecLost == LostInit /\ [][LostNext]_vars

-----------------------------------------------------------------------------
(* The earlier single-shot recorder (the third EventsRecorderMixin of
   part_000): startSaveVideoClip, a debounced extension, and a detection
   listener that filters only while the camera is not recording. *)

\* the filter of the detection listener of this mixin
OldDetectionPasses(det) ==
    LET classname == detectionClassesDefaultMap(det.className)
    IN  /\ classname # "undefined"
        /\ classname \in detectionClasses
        /\ det.score >= scoreThreshold

\* filtered: data.detections as they are while recording
OldFiltered(batch) ==
    IF recording THEN batch ELSE {d \in batch : OldDetectionPasses(d)}

\* the while loop of this onClose gives up after this many checks
OldMaxChecks == 5

\* triggerMotionRecording of this mixin, with startSaveVideoClip and
\* restartTimeout
OldTriggerMotionRecording(classes) ==
    IF ~recording
    THEN /\ CanSpawn
         /\ recordingTimeStart' = now
         /\ recording' = TRUE
         /\ saveFfmpegProcess' = NextProc
         /\ proc' = [proc EXCEPT ![NextProc] =
                        [state |-> "running", startedAt |-> now,
                         accepted |-> classes]]
         /\ saveRecordingListener' = restartTimeout(now)
         /\ UNCHANGED lastExtendLogged
    ELSE /\ IF /\ (now - recordingTimeStart) < (maxLength - clipDuration)
               /\ (lastExtendLogged = 0 \/ now - lastExtendLogged > 1)
            THEN /\ lastExtendLogged' = now
                 /\ saveRecordingListener' = restartTimeout(now)
            ELSE UNCHANGED <<lastExtendLogged, saveRecordingListener>>
         /\ proc' = [proc EXCEPT ![saveFfmpegProcess].accepted = @ \cup classes]
         /\ UNCHANGED <<recording, recordingTimeStart, saveFfmpegProcess>>

\* the ObjectDetector listener of this mixin
OldObjectsDetected(batch) ==
    /\ detectionListener
    /\ LET filtered == OldFiltered(batch)
           classes == {d.className : d \in filtered}
       IN  IF filtered = {}
           THEN UNCHANGED <<sessionVars, proc, lastExtendLogged>>
           ELSE /\ classesDetected' = classesDetected \cup classes
                /\ OldTriggerMotionRecording(classes)
    /\ UNCHANGED <<envVars, cfgVars, listenerVars, fin, tmpClip, clips, offOld>>

\* 'close' of an encoder of this mixin: onClose up to its first await
OldEncoderCloses(p) ==
    /\ proc[p].state \in {"running", "signalled"}
    /\ now > proc[p].startedAt
    /\ proc' = [proc EXCEPT ![p].state = "closed"]
    /\ recording' = FALSE
    /\ fin' = [fin EXCEPT ![p] = [pc |-> "wait", endTime |-> now, currentChecks |-> 0]]
    /\ UNCHANGED <<envVars, cfgVars, listenerVars, recordingTimeStart,
                   saveRecordingListener, classesDetected, saveFfmpegProcess,
                   tmpClip, clips, lastExtendLogged, offOld>>

\* one pass of the while loop of this onClose, and the rename after it: the
\* rename of a file that never came rejects and ends the handler
OldFinalizeCheck(p) ==
    /\ CheckDue(p)
    /\ IF tmpClip
       THEN /\ clips' = clips \cup {ClipOf(p)}
            /\ tmpClip' = FALSE
            /\ fin' = [fin EXCEPT ![p].pc = "thumb"]
       ELSE /\ fin' = [fin EXCEPT ![p].currentChecks = @ + 1,
                                  ![p].pc = IF fin[p].currentChecks + 1 < OldMaxChecks
                                            THEN "wait" ELSE "lost"]
            /\ UNCHANGED <<tmpClip, clips>>
    /\ UNCHANGED <<envVars, cfgVars, listenerVars, sessionVars, proc,
                   lastExtendLogged, offOld>>

\* one run of the interval callback of this mixin: startListeners registers
\* the listener and resets nothing
OldMainLoopTick ==
    /\ mainLoopListener
    /\ IF killed
       THEN resetListeners(FALSE, FALSE)
       ELSE IF ~pluginEnabled
            THEN resetListeners(TRUE, FALSE)
            ELSE IF ~running
                 THEN /\ running' = TRUE
                      /\ detectionListener' = TRUE
                      /\ listeners' = listeners + 1
                      /\ UNCHANGED <<mainLoopListener, saveRecordingListener>>
                 ELSE UNCHANGED <<mainLoopListener, running, detectionListener,
                                  listeners, saveRecordingListener>>
    /\ UNCHANGED <<envVars, cfgVars, classesMap, recording, lastClipRecordedTime,
                   recordingTimeStart, classesDetected, saveFfmpegProcess, procVars,
                   motionVars, extendResets, offShot>>

OldInit == ShotInit /\ MotionOff /\ FsIdle /\ NameIdle /\ SegIdle /\ minDelayBetweenClips = 0

OldNext ==
    \/ \E batch \in Batches : OldObjectsDetected(batch)
    \/ DeadlineFires
    \/ \E p \in Procs : EncoderWrites(p)
    \/ \E p \in Procs : OldEncoderCloses(p)
    \/ \E p \in Procs : OldFinalizeCheck(p)
    \/ \E p \in Procs : FinalizeThumbnail(p)
    \/ OldMainLoopTick
    \/ release
    \/ SetPluginEnabled
    \/ AdvanceTime(MaxTime)

\* the earlier single-shot recorder over every setting within the bounds
SpecShotOld == OldInit /\ [][OldNext]_vars

-----------------------------------------------------------------------------
(* The segment recorder (src/eventsRecorderMixin.ts, the first mixin): a
   capture process writes one-second segments into tmp/, a session is cut out
   of them by saveVideoClip and the capture is started again. *)

segCfgVars == <<maxLength, preEventSeconds, postEventSeconds>>

\* the 2 hours after which the main loop restarts the capture, in clock units
RestartPeriod == 2

\* detectionClasses of this mixin (default: its own defaultClasses, with motion)
segDetectionClasses == KnownClassSet

\* data.detections of one detection
SegBatches ==
    {{d} : d \in [className : {"person", OtherClass}, score : Scores,
                  boundingBox : {TRUE}]}

\* the filter of the detection listener of this mixin
SegDetectionPasses(det) ==
    LET classname == detectionClassesDefaultMap(det.className)
    IN  /\ classname # "undefined"
        /\ classname \in segDetectionClasses
        /\ det.score >= scoreThreshold

\* a segment field used as a condition: undefined and 0 are falsy
Truthy(x) == x # Undefined /\ x # 0

\* allSegments.sort by the number in the file name
RECURSIVE SortByIndex(_)
SortByIndex(allSegments) ==
    IF allSegments = {} THEN <<>>
    ELSE LET m == CHOOSE i \in allSegments : \A j \in allSegments : i <= j
         IN  <<m>> \o SortByIndex(allSegments \ {m})

\* saveVideoClip: the segments given to concat
SelectSegments(allSegments, evSegment, svSegment, preSeconds) ==
    LET matches(segmentIndex) ==
            LET lowOk == IF Truthy(evSegment)
                         THEN segmentIndex >= (evSegment - preSeconds) ELSE TRUE
                highOk == IF Truthy(svSegment)
                          THEN segmentIndex <= svSegment ELSE TRUE
            IN  lowOk /\ highOk
    IN  SelectSeq(SortByIndex(allSegments), matches)

\* stopCapture: the process the field refers to is terminated (SIGTERM, then
\* SIGKILL after 5 s); nothing happens while the field is undefined
stopCapture(cap) ==
    IF segmentsFfmpegProcess # 0
    THEN [cap EXCEPT ![segmentsFfmpegProcess].state = "exited"]
    ELSE cap

\* the process the next spawn creates
NextCapture(cap) ==
    CHOOSE p \in Captures :
        /\ cap[p].state = "unborn"
        /\ \A q \in Captures : cap[q].state = "unborn" => p <= q

CanStartCapture(cap) == \E p \in Captures : cap[p].state = "unborn"

\* startCapture: a new capture is spawned; the field is overwritten
startCapture(cap) ==
    [cap EXCEPT ![NextCapture(cap)] =
        [state |-> "alive", next |-> 0, pending |-> FALSE]]

\* resetListeners(props) of this mixin
SegResetListeners(skipMainLoop, skipDetectionListener) ==
    /\ running' = FALSE
    /\ mainLoopListener' = IF skipMainLoop THEN mainLoopListener ELSE FALSE
    /\ detectionListener' = IF skipDetectionListener THEN detectionListener ELSE FALSE
    /\ registered' = IF ~skipDetectionListener /\ detectionListener
                     THEN registered - 1 ELSE registered
    /\ capture' = stopCapture(capture)
    /\ segmentsListener' = FALSE

\* the interval callback, plugin enabled: shouldRestartCapture with a process
\* in the field
SegTickRestarts_always ==
    /\ lastRunStart # 0
    /\ segmentsFfmpegProcess # 0

SegTickRestarts ==
    /\ lastRunStart # 0 /\ (now - lastRunStart) >= RestartPeriod
    /\ segmentsFfmpegProcess # 0

\* the interval callback, plugin enabled: funct is called
SegTickStarts ==
    SegTickRestarts \/ ~running \/ lastRunStart = 0 \/ forceClosedCapture

\* one run of the interval callback of startCheckInterval, funct included
SegMainLoopTick ==
    /\ mainLoopListener
    /\ IF killed
       THEN /\ SegResetListeners(FALSE, FALSE)
            /\ UNCHANGED <<forceClosedCapture, lastRunStart, segmentsFfmpegProcess,
                           tmpFolder>>
       ELSE IF ~pluginEnabled
       THEN /\ SegResetListeners(TRUE, FALSE)
            /\ UNCHANGED <<forceClosedCapture, lastRunStart, segmentsFfmpegProcess,
                           tmpFolder>>
       ELSE LET restart == SegTickRestarts
                stopped == IF restart THEN stopCapture(capture) ELSE capture
            IN  IF SegTickStarts
                THEN /\ CanStartCapture(stopped)
                     /\ registered < MaxRegistered
                     /\ forceClosedCapture' = FALSE
                     /\ running' = TRUE
                     /\ lastRunStart' = now
                     /\ capture' = startCapture(stopped)
                     /\ segmentsFfmpegProcess' = NextCapture(stopped)
                     /\ detectionListener' = TRUE
                     /\ registered' = registered + 1
                     /\ segmentsListener' = TRUE
                     /\ tmpFolder' = IF restart THEN {} ELSE tmpFolder
                     /\ UNCHANGED mainLoopListener
                ELSE UNCHANGED <<running, mainLoopListener, detectionListener,
                                 registered, capture, segmentsListener,
                                 forceClosedCapture, lastRunStart,
                                 segmentsFfmpegProcess, tmpFolder>>
    /\ UNCHANGED <<envVars, segCfgVars, recording, recordingTimeStart,
                   saveRecordingListener, classesDetected, clips, lastExtendLogged,
                   currentSegment, eventSegment, saveSegment, concats, concatInput, offSeg>>

\* release() of this mixin
SegRelease ==
    /\ ~killed
    /\ killed' = TRUE
    /\ SegResetListeners(FALSE, FALSE)
    /\ UNCHANGED <<now, pluginEnabled, segCfgVars, recording, recordingTimeStart,
                   saveRecordingListener, classesDetected, clips, forceClosedCapture,
                   lastRunStart, lastExtendLogged, segmentsFfmpegProcess,
                   currentSegment, eventSegment, saveSegment, tmpFolder, concats,
                   concatInput, offSeg>>

\* restartTimeout of this mixin: the time the new timeout fires at
SegRestartTimeout(t) == t + postEventSeconds

\* triggerMotionRecording of this mixin: shouldExtend
SegShouldExtend(currentDuration) ==
    currentDuration <= postEventSeconds /\ currentDuration < maxLength

\* triggerMotionRecording with startNewRecording and extendRecording
SegTriggerMotionRecording ==
    IF ~recording
    THEN /\ recordingTimeStart' = now
         /\ recording' = TRUE
         /\ eventSegment' = currentSegment
         /\ saveRecordingListener' = SegRestartTimeout(now)
         /\ UNCHANGED lastExtendLogged
    ELSE IF /\ SegShouldExtend(now - recordingTimeStart)
            /\ (lastExtendLogged = 0 \/ now - lastExtendLogged > 1)
         THEN /\ lastExtendLogged' = now
              /\ saveRecordingListener' = SegRestartTimeout(now)
              /\ UNCHANGED <<recording, recordingTimeStart, eventSegment>>
         ELSE UNCHANGED <<recording, recordingTimeStart, eventSegment,
                          saveRecordingListener, lastExtendLogged>>

\* a registered ObjectDetector listener of this mixin is called
SegObjectsDetected(batch) ==
    /\ registered > 0
    /\ LET filtered == {d \in batch : SegDetectionPasses(d)}
       IN  IF filtered = {}
           THEN UNCHANGED <<recording, recordingTimeStart, eventSegment,
                            saveRecordingListener, lastExtendLogged, classesDetected>>
           ELSE /\ classesDetected' = classesDetected \cup {d.className : d \in filtered}
                /\ SegTriggerMotionRecording
    /\ UNCHANGED <<envVars, segCfgVars, mainLoopListener, running, detectionListener,
                   clips, segmentsListener, registered, forceClosedCapture,
                   lastRunStart, segmentsFfmpegProcess, capture, currentSegment,
                   saveSegment, tmpFolder, concats, concatInput, offSeg>>

\* saveVideoClip: the files of tmp/ it finds and the segments it gives to
\* concat
ConcatOf(svSegment) ==
    [allSegments |-> tmpFolder,
     eventSegment |-> eventSegment,
     saveSegment |-> svSegment,
     segments |-> SelectSegments(tmpFolder, eventSegment, svSegment,
                                 preEventSeconds)]

\* the timeout of restartTimeout fires: saveSegment is taken and saveVideoClip
\* runs up to the spawn of concat
SegDeadlineFires ==
    /\ saveRecordingListener # 0
    /\ saveRecordingListener <= now
    /\ concats < MaxConcat
    /\ saveRecordingListener' = 0
    /\ saveSegment' = currentSegment
    /\ capture' = stopCapture(capture)
    /\ concatInput' = ConcatOf(currentSegment)
    /\ concats' = concats + 1
    /\ UNCHANGED <<envVars, segCfgVars, mainLoopListener, running, detectionListener,
                   recording, recordingTimeStart, classesDetected, clips, segmentsListener,
                   registered, forceClosedCapture, lastRunStart, lastExtendLogged,
                   segmentsFfmpegProcess, currentSegment, eventSegment, tmpFolder,
                   offSeg>>

\* 'close' of a concat helper and of its thumbnail helper: the session is
\* reset and the capture started again
ConcatCloses ==
    /\ concats > 0
    /\ CanStartCapture(capture)
    /\ concats' = concats - 1
    /\ recording' = FALSE
    /\ saveSegment' = Undefined
    /\ eventSegment' = Undefined
    /\ classesDetected' = {}
    /\ saveRecordingListener' = 0
    /\ tmpFolder' = {}
    /\ capture' = startCapture(capture)
    /\ segmentsFfmpegProcess' = NextCapture(capture)
    /\ UNCHANGED <<envVars, segCfgVars, mainLoopListener, running, detectionListener,
                   recordingTimeStart, clips, segmentsListener, registered,
                   forceClosedCapture, lastRunStart, lastExtendLogged,
                   currentSegment, concatInput, offSeg>>

\* a capture opens its next segment file
CaptureOpens(p) ==
    /\ capture[p].state = "alive"
    /\ ~capture[p].pending
    /\ capture[p].next <= MaxSegment
    /\ tmpFolder' = tmpFolder \cup {capture[p].next}
    /\ capture' = [capture EXCEPT ![p].next = @ + 1, ![p].pending = TRUE]
    /\ UNCHANGED <<envVars, segCfgVars, mainLoopListener, running, detectionListener,
                   recording, recordingTimeStart, saveRecordingListener,
                   classesDetected, clips, segmentsListener, registered,
                   forceClosedCapture, lastRunStart, lastExtendLogged,
                   segmentsFfmpegProcess, currentSegment, eventSegment, saveSegment,
                   concats, concatInput, offSeg>>

\* the stderr handler of a capture reads "Opening '...segmentNNN.ts' for writing"
CaptureStderr(p) ==
    /\ capture[p].pending
    /\ currentSegment' = capture[p].next - 1
    /\ capture' = [capture EXCEPT ![p].pending = FALSE]
    /\ UNCHANGED <<envVars, segCfgVars, mainLoopListener, running, detectionListener,
                   recording, recordingTimeStart, saveRecordingListener,
                   classesDetected, clips, segmentsListener, registered,
                   forceClosedCapture, lastRunStart, lastExtendLogged,
                   segmentsFfmpegProcess, eventSegment, saveSegment, tmpFolder,
                   concats, concatInput, offSeg>>

\* a capture exits on its own; the handler that would set forceClosedCapture
\* listens for 'exit' on the stdout stream, which never emits it
CaptureExits(p) ==
    /\ capture[p].state = "alive"
    /\ capture' = [capture EXCEPT ![p].state = "crashed"]
    /\ UNCHANGED <<envVars, segCfgVars, mainLoopListener, running, detectionListener,
                   recording, recordingTimeStart, saveRecordingListener,
                   classesDetected, clips, segmentsListener, registered,
                   forceClosedCapture, lastRunStart, lastExtendLogged,
                   segmentsFfmpegProcess, currentSegment, eventSegment, saveSegment,
                   tmpFolder, concats, concatInput, offSeg>>

\* the state once the constructor's timeout has run init() and
\* startCheckInterval()
SegInit ==
    /\ NameIdle
    /\ FsIdle
    /\ now = 1
    /\ pluginEnabled = TRUE
    /\ killed = FALSE
    /\ clipDuration = 1
    /\ minDelayBetweenClips = 0
    /\ maxLength = SegMaxLength
    /\ preEventSeconds \in 0..MaxPreEvent
    /\ postEventSeconds = SegPostEvent
    /\ mainLoopListener = TRUE
    /\ running = FALSE
    /\ detectionListener = FALSE
    /\ classesMap = {}
    /\ listeners = 0
    /\ recording = FALSE
    /\ lastClipRecordedTime = 0
    /\ recordingTimeStart = 0
    /\ saveRecordingListener = 0
    /\ classesDetected = {}
    /\ saveFfmpegProcess = 0
    /\ proc = [p \in Procs |-> NoProc]
    /\ fin = [p \in Procs |-> NoFin]
    /\ tmpClip = FALSE
    /\ clips = {}
    /\ lastMotionTrigger = 0
    /\ lastMotionAccepted = 0
    /\ prolongClipOnMotion = FALSE
    /\ isMotionIncluded = FALSE
    /\ extendResets = 0
    /\ segmentsListener = FALSE
    /\ registered = 0
    /\ forceClosedCapture = FALSE
    /\ lastRunStart = 0
    /\ lastExtendLogged = 0
    /\ segmentsFfmpegProcess = 0
    /\ capture = [p \in Captures |-> NoCapture]
    /\ currentSegment = Undefined
    /\ eventSegment = Undefined
    /\ saveSegment = Undefined
    /\ tmpFolder = {}
    /\ concats = 0
    /\ concatInput = NoConcat

SegNext ==
    \/ SegMainLoopTick
    \/ SegRelease
    \/ SetPluginEnabled
    \/ \E batch \in SegBatches : SegObjectsDetected(batch)
    \/ SegDeadlineFires
    \/ ConcatCloses
    \/ \E p \in Captures : CaptureOpens(p)
    \/ \E p \in Captures : CaptureStderr(p)
    \/ \E p \in Captures : CaptureExits(p)
    \/ AdvanceTime(MaxSegTime)

\* the segment recorder over every setting within the bounds
SpecSeg == SegInit /\ [][SegNext]_vars

-----------------------------------------------------------------------------
(* The clip store (the latest EventsRecorderMixin): scanFs and
   removeVideoClips. A call is followed from one awaited file operation to
   the next; one call runs at a time. *)

\* util.ts
cleanupMemoryThresholderInGb == 10

clipsToCleanup == 10

\* the setting maxSpaceInGb (default)
maxSpaceInGb == 20

\* the sizes calculateSize can find under the device folder, in GB
Occupancies == {9, 10, 11}

\* getStorageDirs(name).filename: name.split('.')[0]
Stem(name) ==
    IF \E i \in 1..Len(name) : name[i] = "."
    THEN SubSeq(name, 1, (CHOOSE i \in 1..Len(name) :
                             /\ name[i] = "."
                             /\ \A j \in 1..(i - 1) : name[j] # ".") - 1)
    ELSE name

TmpClipFilename == <<"t", "m", "p", "_", "c", "l", "i", "p">> \o Mp4

\* the file a session from startTime to startTime + 1 with a person is saved as
ClipName(startTime) == getVideoClipName(startTime, startTime + 1, {"person"}) \o Mp4

\* what readdir(videoClipsFolder) can give: the clips recorded at 1..n, with
\* or without the temp file of a running encoder
ClipFolders ==
    {{ClipName(t) : t \in 1..n} \cup extra :
        n \in 0..MaxClips, extra \in {{}, {TmpClipFilename}}}

\* scanFs: timeStart of an entry that matches videoClipRegex
TimeStart(file) == Number(videoClipRegexMatch(file)[2])

\* scanFs: fileDetails, the matching entries sorted by timeStart
RECURSIVE SortByTimeStart(_)
SortByTimeStart(files) ==
    IF files = {} THEN <<>>
    ELSE LET first == CHOOSE f \in files :
                          \A g \in files : TimeStart(f) <= TimeStart(g)
         IN  <<first>> \o SortByTimeStart(files \ {first})

\* no call on the clip store is running; the store is followed up to the
\* first call that ends with an error
FsQuiet ==
    /\ scan.pc \in {"idle", "done"}
    /\ removal.pc \in {"idle", "done"}

\* scanFs up to its first rm: the size is taken, the free space compared with
\* the threshold and the entries of videoclips/ listed and sorted
ScanStart(occupiedSpaceInGbNumber) ==
    /\ FsQuiet
    /\ LET freeMemory == maxSpaceInGb - occupiedSpaceInGbNumber
           matching == {f \in videoClipsFolder : videoClipRegexMatch(f) # <<>>}
       IN  scan' = [pc |-> IF freeMemory <= cleanupMemoryThresholderInGb
                           THEN "video" ELSE "done",
                    i |-> 0,
                    fileDetails |-> IF freeMemory <= cleanupMemoryThresholderInGb
                                    THEN SortByTimeStart(matching) ELSE <<>>,
                    freeMemory |-> freeMemory,
                    error |-> "none",
                    failed |-> {},
                    files |-> videoClipsFolder,
                    thumbnails |-> thumbnailsFolder]
    /\ removal' = NoRemoval
    /\ UNCHANGED <<videoClipsFolder, thumbnailsFolder, catalogVars, offFs>>

\* the loop of scanFs: fileDetails[i] is destructured and the video removed;
\* rm resolves (ok) or rejects
ScanRmVideo(ok) ==
    /\ scan.pc = "video"
    /\ IF scan.i >= Len(scan.fileDetails)
       THEN /\ scan' = [scan EXCEPT !.pc = "failed", !.error = "TypeError"]
            /\ UNCHANGED videoClipsFolder
       ELSE LET file == scan.fileDetails[scan.i + 1]
            IN  IF ok
                THEN /\ videoClipsFolder' = videoClipsFolder \ {Stem(file) \o Mp4}
                     /\ scan' = [scan EXCEPT !.pc = "thumbnail"]
                ELSE /\ scan' = [scan EXCEPT !.pc = "failed", !.error = "rm",
                                             !.failed = @ \cup {file}]
                     /\ UNCHANGED videoClipsFolder
    /\ UNCHANGED <<thumbnailsFolder, removal, catalogVars, offFs>>

\* the loop of scanFs: the thumbnail is removed and i counted up; after the
\* loop lastScanFs is set and the call returns
ScanRmThumbnail(ok) ==
    /\ scan.pc = "thumbnail"
    /\ LET file == scan.fileDetails[scan.i + 1]
       IN  IF ok
           THEN /\ thumbnailsFolder' = thumbnailsFolder \ {Stem(file)}
                /\ scan' = [scan EXCEPT !.i = @ + 1,
                                        !.pc = IF scan.i + 1 < clipsToCleanup
                                               THEN "video" ELSE "done"]
           ELSE /\ scan' = [scan EXCEPT !.pc = "failed", !.error = "rm",
                                        !.failed = @ \cup {Stem(file)}]
                /\ UNCHANGED thumbnailsFolder
    /\ UNCHANGED <<videoClipsFolder, removal, catalogVars, offFs>>

\* the ids a caller passes to removeVideoClips: the latest n clips of the
\* folder, the latest first
RemovalIds(n) ==
    LET sorted == SortByTimeStart(videoClipsFolder \ {TmpClipFilename})
    IN  [k \in 1..n |-> Stem(sorted[Len(sorted) + 1 - k])]

\* removeVideoClips(...videoClipIds) up to its first rm
RemoveStart(n) ==
    /\ FsQuiet
    /\ n <= Cardinality(videoClipsFolder \ {TmpClipFilename})
    /\ removal' = [pc |-> "video", i |-> 0, videoClipIds |-> RemovalIds(n),
                   error |-> "none"]
    /\ scan' = NoScan
    /\ UNCHANGED <<videoClipsFolder, thumbnailsFolder, catalogVars, offFs>>

\* the loop of removeVideoClips: the video is removed
RemoveRmVideo(ok) ==
    /\ removal.pc = "video"
    /\ LET videoClipId == removal.videoClipIds[removal.i + 1]
       IN  IF ok
           THEN /\ videoClipsFolder' = videoClipsFolder \ {Stem(videoClipId) \o Mp4}
                /\ removal' = [removal EXCEPT !.pc = "thumbnail"]
           ELSE /\ removal' = [removal EXCEPT !.pc = "failed", !.error = "rm"]
                /\ UNCHANGED videoClipsFolder
    /\ UNCHANGED <<thumbnailsFolder, scan, catalogVars, offFs>>

\* the loop of removeVideoClips: the thumbnail is removed
RemoveRmThumbnail(ok) ==
    /\ removal.pc = "thumbnail"
    /\ LET videoClipId == removal.videoClipIds[removal.i + 1]
       IN  IF ok
           THEN /\ thumbnailsFolder' = thumbnailsFolder \ {Stem(videoClipId)}
                /\ removal' = [removal EXCEPT
                                  !.i = @ + 1,
                                  !.pc = IF removal.i + 1 < Len(removal.videoClipIds)
                                         THEN "video" ELSE "done"]
           ELSE /\ removal' = [removal EXCEPT !.pc = "failed", !.error = "rm"]
                /\ UNCHANGED thumbnailsFolder
    /\ UNCHANGED <<videoClipsFolder, scan, catalogVars, offFs>>

\* every clip of the folder has its thumbnail and every thumbnail its clip
EvictInit ==
    /\ ShotIdle
    /\ clipDuration = 1 /\ maxLength = 1 /\ minDelayBetweenClips = 0
    /\ SegIdle
    /\ NameIdle
    /\ videoClipsFolder \in ClipFolders
    /\ thumbnailsFolder = {Stem(f) : f \in videoClipsFolder \ {TmpClipFilename}}
    /\ scanData = {}
    /\ lastIndexFs = 0
    /\ scan = NoScan
    /\ removal = NoRemoval
    /\ videoclips = NoQuery
    /\ indexing = NoIndexing
    /\ closing = NoClosing
    /\ SideIdle

EvictNext ==
    \/ \E occupied \in Occupancies : ScanStart(occupied)
    \/ \E ok \in BOOLEAN : ScanRmVideo(ok)
    \/ \E ok \in BOOLEAN : ScanRmThumbnail(ok)
    \/ \E n \in 1..2 : RemoveStart(n)
    \/ \E ok \in BOOLEAN : RemoveRmVideo(ok)
    \/ \E ok \in BOOLEAN : RemoveRmThumbnail(ok)

\* eviction and removal over folders of 0..MaxClips clips
SpecEvict == EvictInit /\ [][EvictNext]_vars

-----------------------------------------------------------------------------
(* The clip store: indexFs, parseVideoClipFile and getVideoClips *)

\* getMainDetectionClass (util.ts): the first of these that is included
MainClassOrder == <<"face", "plate", "package", "person", "animal", "vehicle", "motion">>

getMainDetectionClass(classes) ==
    IF \E k \in 1..Len(MainClassOrder) : MainClassOrder[k] \in classes
    THEN MainClassOrder[CHOOSE k \in 1..Len(MainClassOrder) :
                           /\ MainClassOrder[k] \in classes
                           /\ \A j \in 1..(k - 1) : MainClassOrder[j] \notin classes]
    ELSE "undefined"

\* entry.name.endsWith('.mp4')
EndsWithMp4(name) ==
    /\ Len(name) >= Len(Mp4)
    /\ SubSeq(name, Len(name) - Len(Mp4) + 1, Len(name)) = Mp4

\* parseVideoClipFile(videoClipName) as indexFs uses it: TRUE if it returns an
\* entry. stat rejects for a path that is not there or cannot be read, the
\* temp clip is left out, and a name videoClipRegex does not match makes the
\* destructuring throw inside the try block.
Parses(videoClipName, unstatable) ==
    /\ Stem(videoClipName) \o Mp4 \in videoClipsFolder \ unstatable
    /\ videoClipName # TmpClipFilename
    /\ videoClipRegexMatch(videoClipName) # <<>>

\* fildeData of parseVideoClipFile
FileData(videoClipName) ==
    LET parsed == parseVideoClipFile(videoClipName)
    IN  [filename |-> Stem(videoClipName),
         startTime |-> parsed.startTime,
         endTime |-> parsed.endTime,
         detectionClasses |-> parsed.detectionClasses]

\* indexFs: the .mp4 entries are parsed one by one and the catalog replaced
IndexFs(unstatable) ==
    /\ FsQuiet
    /\ unstatable \subseteq videoClipsFolder
    /\ Cardinality(unstatable) <= 1
    /\ LET filteredEntries == {f \in videoClipsFolder : EndsWithMp4(f)}
       IN  scanData' = {FileData(f) : f \in {g \in filteredEntries :
                                                Parses(g, unstatable)}}
    /\ lastIndexFs' = now
    /\ UNCHANGED <<videoClipsFolder, thumbnailsFolder, scan, removal, videoclips, offFs>>

\* the times a caller asks for
QueryTimes == 0..MaxQueryTime

\* getVideoClips(options): one try, no additional days
GetVideoClips(startTime, endTime) ==
    /\ FsQuiet
    /\ startTime <= endTime
    /\ videoclips' =
          [options |-> <<startTime, endTime>>,
           clips |-> {[id |-> item.filename,
                       startTime |-> item.startTime,
                       duration |-> item.endTime - item.startTime,
                       event |-> getMainDetectionClass(item.detectionClasses)] :
                      item \in {x \in scanData :
                                   /\ x.startTime # NaN
                                   /\ x.startTime >= startTime
                                   /\ x.startTime <= endTime}}]
    /\ UNCHANGED <<videoClipsFolder, thumbnailsFolder, scanData, lastIndexFs, scan,
                   removal, offFs>>

\* the entries a videoclips/ folder can hold: two clips, a name with text in
\* place of the times, a name without separators, the temp clip and a file
\* that is not a video
CatalogEntries ==
    {getVideoClipName(1, 3, {"person"}) \o Mp4,
     getVideoClipName(4, 5, {"face", "vehicle"}) \o Mp4,
     <<"a", "_", "b", "_", "c">> \o Mp4,
     <<"j", "u", "n", "k">> \o Mp4,
     TmpClipFilename,
     <<"n", "o", "t", "e", ".", "t", "x", "t">>}

CatalogInit ==
    /\ ShotIdle
    /\ clipDuration = 1 /\ maxLength = 1 /\ minDelayBetweenClips = 0
    /\ SegIdle
    /\ NameIdle
    /\ videoClipsFolder \in SUBSET CatalogEntries
    /\ thumbnailsFolder = {}
    /\ scanData = {}
    /\ lastIndexFs = 0
    /\ scan = NoScan
    /\ removal = NoRemoval
    /\ videoclips = NoQuery
    /\ indexing = NoIndexing
    /\ closing = NoClosing
    /\ SideIdle

CatalogNext ==
    \/ \E unstatable \in SUBSET CatalogEntries : IndexFs(unstatable)
    \/ \E startTime \in QueryTimes, endTime \in QueryTimes :
          GetVideoClips(startTime, endTime)

\* indexing and listing over folders of well and badly named entries
SpecCatalog == CatalogInit /\ [][CatalogNext]_vars

ListedNext ==
    \/ IndexFs({})
    \/ \E endTime \in QueryTimes : GetVideoClips(0, endTime)
    \/ \E occupied \in Occupancies : ScanStart(occupied)
    \/ ScanRmVideo(TRUE)
    \/ ScanRmThumbnail(TRUE)
    \/ \E n \in 1..2 : RemoveStart(n)
    \/ RemoveRmVideo(TRUE)
    \/ RemoveRmThumbnail(TRUE)

\* listing from the catalog between passes of indexFs, removals and evictions
SpecListed == EvictInit /\ [][ListedNext]_vars

-----------------------------------------------------------------------------
(* The clip store: the end of onClose beside a pass of indexFs. Both are
   followed from one await to the next. *)

\* indexFs up to its first parseVideoClipFile: readdir and the .mp4 filter
IndexStart ==
    /\ indexing.pc = "idle"
    /\ indexing' = [pc |-> "parse",
                    filteredEntries |-> {f \in videoClipsFolder : EndsWithMp4(f)}]
    /\ UNCHANGED <<videoClipsFolder, thumbnailsFolder, scan, removal, catalogVars,
                   closing, offRace>>

\* indexFs: the entries read are parsed and the catalog replaced
IndexEnd ==
    /\ indexing.pc = "parse"
    /\ scanData' = {FileData(f) : f \in {g \in indexing.filteredEntries :
                                               Parses(g, {})}}
    /\ lastIndexFs' = now
    /\ indexing' = NoIndexing
    /\ UNCHANGED <<videoClipsFolder, thumbnailsFolder, scan, removal, videoclips,
                   closing, offRace>>

\* onClose: the temp clip of the session that started at startTime is renamed
CloseRename(startTime) ==
    /\ closing.pc = "idle"
    /\ ClipName(startTime) \notin videoClipsFolder
    /\ videoClipsFolder' = videoClipsFolder \cup {ClipName(startTime)}
    /\ closing' = [closing EXCEPT !.pc = "thumbnail",
                                  !.filename = Stem(ClipName(startTime))]
    /\ UNCHANGED <<thumbnailsFolder, scan, removal, catalogVars, indexing,
                   offRace>>

\* onClose: saveThumbnail resolves
CloseThumbnail ==
    /\ closing.pc = "thumbnail"
    /\ thumbnailsFolder' = thumbnailsFolder \cup {closing.filename}
    /\ closing' = [closing EXCEPT !.pc = "push"]
    /\ UNCHANGED <<videoClipsFolder, scan, removal, catalogVars, indexing,
                   offRace>>

\* onClose: the new file is parsed and pushed onto scanData
ClosePush ==
    /\ closing.pc = "push"
    /\ LET filenameWithVideoExtension == closing.filename \o Mp4
       IN  /\ scanData' = IF Parses(filenameWithVideoExtension, {})
                          THEN scanData \cup {FileData(filenameWithVideoExtension)}
                          ELSE scanData
           /\ closing' = [pc |-> "idle", filename |-> <<>>,
                          finalized |-> closing.finalized
                                          \cup {filenameWithVideoExtension}]
    /\ UNCHANGED <<videoClipsFolder, thumbnailsFolder, scan, removal, lastIndexFs,
                   videoclips, indexing, offRace>>

RaceInit ==
    /\ ShotIdle
    /\ clipDuration = 1 /\ maxLength = 1 /\ minDelayBetweenClips = 0
    /\ SegIdle
    /\ NameIdle
    /\ FsIdle

RaceNext ==
    \/ IndexStart
    \/ IndexEnd
    \/ \E startTime \in 1..MaxRaceClips : CloseRename(startTime)
    \/ CloseThumbnail
    \/ ClosePush

\* clips being finalized while the folder is indexed
SpecIndexRace == RaceInit /\ [][RaceNext]_vars

-----------------------------------------------------------------------------
(* stopCapture of the segment variant, one call at a time, on a subprocess
   that may exit when signalled, exit on its own, or ignore SIGTERM. *)

\* the 5000 ms of forceKillTimeout, in seconds
forceKillDelay == 5

\* what stopCapture is called on: the mixin (await this.stopCapture()) or the
\* process object (process.on('exit', this.stopCapture), unbound)
Receivers == {"mixin", "process"}

\* startCapture: spawn
ChildSpawn ==
    /\ stopping.pc = "idle"
    /\ child.state # "alive"
    /\ child' = [state |-> "alive", killed |-> FALSE]
    /\ UNCHANGED <<now, stopping, offStop>>

\* ChildProcess.kill: the signal is sent and killed set if the process lives
Kill(c) == IF c.state = "alive" THEN [c EXCEPT !.killed = TRUE] ELSE c

\* stopCapture up to its first await, or to its end when it awaits nothing
StopCaptureCall(receiver) ==
    /\ stopping.pc = "idle"
    /\ now + forceKillDelay <= MaxStopTime
    \* the handlers of the process are registered by startCapture
    /\ receiver = "process" => child.state # "none"
    /\ IF receiver = "process"
       THEN \* this.getLogger is not a function
            /\ stopping' = [pc |-> "rejected", forceKillTimeout |-> 0]
            /\ UNCHANGED child
       ELSE IF child.state # "none" /\ ~child.killed
       THEN /\ child' = Kill(child)
            /\ stopping' = [pc |-> "waiting",
                            forceKillTimeout |-> now + forceKillDelay]
       ELSE /\ stopping' = [pc |-> "resolved", forceKillTimeout |-> 0]
            /\ UNCHANGED child
    /\ UNCHANGED <<now, offStop>>

\* the subprocess exits; the 'exit' handler of a waiting call clears the
\* timeout and resolves
ChildExits ==
    /\ child.state = "alive"
    /\ child' = [child EXCEPT !.state = "exited"]
    /\ stopping' = IF stopping.pc = "waiting"
                   THEN [pc |-> "resolved", forceKillTimeout |-> 0]
                   ELSE stopping
    /\ UNCHANGED <<now, offStop>>

\* forceKillTimeout fires: SIGKILL, resolve
ForceKillFires ==
    /\ stopping.pc = "waiting"
    /\ stopping.forceKillTimeout <= now
    /\ child' = [state |-> "exited", killed |-> child.state = "alive" \/ child.killed]
    /\ stopping' = [pc |-> "resolved", forceKillTimeout |-> 0]
    /\ UNCHANGED <<now, offStop>>

\* the caller of stopCapture goes on
StopSettles ==
    /\ stopping.pc \in {"resolved", "rejected"}
    /\ stopping' = NoStopping
    /\ UNCHANGED <<now, child, offStop>>

StopAdvanceTime ==
    /\ now < MaxStopTime
    /\ stopping.pc = "waiting" => now < stopping.forceKillTimeout
    /\ now' = now + 1
    /\ UNCHANGED <<child, stopping, offStop>>

StopInit ==
    /\ ShotIdle
    /\ clipDuration = 1 /\ maxLength = 1 /\ minDelayBetweenClips = 0
    /\ SegIdle
    /\ NameIdle
    /\ FsIdle

StopNext ==
    \/ ChildSpawn
    \/ \E receiver \in Receivers : StopCaptureCall(receiver)
    \/ ChildExits
    \/ ForceKillFires
    \/ StopSettles
    \/ StopAdvanceTime

\* timers fire and the clock runs; a subprocess need not exit
SpecStop ==
    /\ StopInit /\ [][StopNext]_vars
    /\ WF_vars(ForceKillFires) /\ WF_vars(StopAdvanceTime)

-----------------------------------------------------------------------------
(* The persisted process id (the latest EventsRecorderMixin): the plugin
   process starts, the constructor's timeout runs, the main loop starts the
   listeners, detections spawn encoders, and the plugin process may restart
   at any moment, with or without its encoders surviving it. *)

Pids == 1..MaxPid

\* the constructor's timeout: what the finally block leaves in processPid
StartupClears_onSuccess(pid, failed) == IF failed THEN pid ELSE 0

StartupClears(pid, failed) == 0

\* the plugin process restarts: the mixin is constructed again, the setting
\* persists, encoders die with the plugin or survive it
PluginRestarts ==
    /\ boot.pc = "done"
    /\ boot' = NoBoot
    /\ killed' = FALSE
    /\ mainLoopListener' = FALSE
    /\ running' = FALSE
    /\ detectionListener' = FALSE
    /\ saveFfmpegProcess' = 0
    /\ osLive' \in SUBSET osLive
    /\ UNCHANGED <<processPid, offPid>>

\* the 2000 ms timeout of the constructor fires: up to getFFmpegPath
StartupTimeout ==
    /\ boot.pc = "timeout"
    /\ boot' = [boot EXCEPT !.pc = IF killed THEN "done" ELSE "ffmpegPath"]
    /\ UNCHANGED <<killed, mainLoopListener, running, detectionListener,
                   saveFfmpegProcess, processPid, osLive, offPid>>

\* the timeout of the constructor goes on: process.kill of the persisted
\* id, which throws if no such process lives, the finally block, init() and
\* startCheckInterval()
StartupKill ==
    /\ boot.pc = "ffmpegPath"
    /\ LET failed == processPid # 0 /\ processPid \notin osLive
       IN  /\ boot' = [pc |-> "done", killCalled |-> processPid,
                       failed |-> failed, cleared |-> TRUE]
           /\ processPid' = StartupClears(processPid, failed)
    /\ osLive' = osLive \ {processPid}
    /\ mainLoopListener' = TRUE
    /\ UNCHANGED <<killed, running, detectionListener, saveFfmpegProcess, offPid>>

\* the interval callback on an enabled camera: funct starts the listeners
PidTick ==
    /\ mainLoopListener
    /\ IF killed
       THEN /\ mainLoopListener' = FALSE
            /\ running' = FALSE
            /\ detectionListener' = FALSE
       ELSE /\ running' = TRUE
            /\ detectionListener' = TRUE
            /\ UNCHANGED mainLoopListener
    /\ UNCHANGED <<killed, saveFfmpegProcess, pidVars, offPid>>

\* release()
PidRelease ==
    /\ ~killed
    /\ killed' = TRUE
    /\ mainLoopListener' = FALSE
    /\ running' = FALSE
    /\ detectionListener' = FALSE
    /\ UNCHANGED <<saveFfmpegProcess, pidVars, offPid>>

\* a detection starts a session: startVideoclipRecording spawns the encoder
\* and persists its process id
PidSpawn(pid) ==
    /\ detectionListener
    /\ pid \notin osLive
    /\ pid # processPid
    /\ saveFfmpegProcess' = pid
    /\ osLive' = osLive \cup {pid}
    /\ processPid' = pid
    /\ UNCHANGED <<killed, mainLoopListener, running, detectionListener, boot, offPid>>

\* the encoder of this mixin closes and onClose runs to its end: with the
\* temp file found the setting is cleared
PidClose(found) ==
    /\ saveFfmpegProcess \in osLive
    /\ osLive' = osLive \ {saveFfmpegProcess}
    /\ processPid' = IF found THEN 0 ELSE processPid
    /\ UNCHANGED <<killed, mainLoopListener, running, detectionListener,
                   saveFfmpegProcess, boot, offPid>>

PidInit ==
    /\ ShotIdle
    /\ clipDuration = 1 /\ maxLength = 1 /\ minDelayBetweenClips = 0
    /\ SegIdle
    /\ NameIdle
    /\ videoClipsFolder = {}
    /\ thumbnailsFolder = {}
    /\ scanData = {}
    /\ lastIndexFs = 0
    /\ scan = NoScan
    /\ removal = NoRemoval
    /\ videoclips = NoQuery
    /\ indexing = NoIndexing
    /\ closing = NoClosing
    /\ child = NoChild
    /\ stopping = NoStopping
    /\ processPid = 0
    /\ boot = NoBoot
    /\ osLive = {}
    /\ cams = [c \in Cameras |-> NoCam]
    /\ OccIdle

PidNext ==
    \/ PluginRestarts
    \/ StartupTimeout
    \/ StartupKill
    \/ PidTick
    \/ PidRelease
    \/ \E pid \in Pids : PidSpawn(pid)
    \/ \E found \in BOOLEAN : PidClose(found)

\* the persisted process id over restarts of the plugin
SpecPid == PidInit /\ [][PidNext]_vars

-----------------------------------------------------------------------------
(* The main loops (the latest EventsRecorderMixin): setInterval calls the
   async callback every 10 s; a callback is followed from one await on the
   file system to the next, and such an await lasts any time. *)

\* the 10000 ms of setInterval, in clock units
TickPeriod == 1

\* the interval callbacks of a camera that have not returned
InFlight(cam) == cam.calls["indexFs"] + cam.calls["scanFs"]

\* the callback from the indexFs condition on: the await it stops at, "end"
\* if it returns
FromIndexFs(cam) ==
    IF ~cam.lastIndexFs THEN "indexFs"
    ELSE IF ~cam.lastScanFs THEN "scanFs" ELSE "end"

\* the callback from the scanFs condition on
FromScanFs(cam) == IF ~cam.lastScanFs THEN "scanFs" ELSE "end"

\* one more callback of this camera waits at an await
Enter(cam, await) ==
    IF await = "end" THEN cam
    ELSE [cam EXCEPT !.calls[await] = @ + 1]

\* a callback of this camera leaves an await
Leave(cam, await) == [cam EXCEPT !.calls[await] = @ - 1]

\* an awaited call throws in a callback of camera c: without the try of the
\* callback the rejection is unhandled and the plugin process ends
AfterThrow_unhandled(cs, c, await) ==
    [d \in Cameras |->
        [(IF d = c THEN [Leave(cs[d], await) EXCEPT !.caught = TRUE] ELSE cs[d])
            EXCEPT !.armed = FALSE]]

\* an awaited call throws in a callback of camera c: the catch of the
\* callback logs it and the callback returns
AfterThrow(cs, c, await) ==
    [cs EXCEPT ![c] = [Leave(cs[c], await) EXCEPT !.caught = TRUE]]

\* the interval of camera c fires: the callback up to its first await on the
\* file system
IntervalFires(c) ==
    /\ cams[c].armed
    /\ cams[c].next <= now
    /\ InFlight(cams[c]) < MaxCalls
    /\ LET fired == [cams[c] EXCEPT !.next = now + TickPeriod,
                                    !.ranAfterCatch = cams[c].caught]
       IN  cams' = [cams EXCEPT ![c] =
               IF fired.killed
               THEN [fired EXCEPT !.running = FALSE, !.armed = FALSE]
               ELSE IF ~pluginEnabled
               THEN [fired EXCEPT !.running = FALSE]
               ELSE LET started == [fired EXCEPT !.running = TRUE]
                    IN  Enter(started, FromIndexFs(started))]
    /\ UNCHANGED <<now, pluginEnabled, offTick>>

\* indexFs resolves in a callback of camera c
TickIndexFsResolves(c) ==
    /\ cams[c].calls["indexFs"] > 0
    /\ LET indexed == [Leave(cams[c], "indexFs") EXCEPT !.lastIndexFs = TRUE]
       IN  cams' = [cams EXCEPT ![c] = Enter(indexed, FromScanFs(cams[c]))]
    /\ UNCHANGED <<now, pluginEnabled, offTick>>

\* scanFs resolves in a callback of camera c
TickScanFsResolves(c) ==
    /\ cams[c].calls["scanFs"] > 0
    /\ cams' = [cams EXCEPT ![c] =
                   [Leave(cams[c], "scanFs") EXCEPT !.lastScanFs = TRUE]]
    /\ UNCHANGED <<now, pluginEnabled, offTick>>

\* indexFs or scanFs throws in a callback of camera c
TickThrows(c, await) ==
    /\ cams[c].calls[await] > 0
    /\ cams' = AfterThrow(cams, c, await)
    /\ UNCHANGED <<now, pluginEnabled, offTick>>

\* release() of camera c
TickRelease(c) ==
    /\ ~cams[c].killed
    /\ cams' = [cams EXCEPT ![c].killed = TRUE, ![c].running = FALSE,
                            ![c].armed = FALSE]
    /\ UNCHANGED <<now, pluginEnabled, offTick>>

\* the operator switches the plugin off or on
TickSetPluginEnabled ==
    /\ pluginEnabled' = ~pluginEnabled
    /\ UNCHANGED <<now, cams, offTick>>

\* the clock moves on; an interval that is due fires before it does
TickAdvanceTime ==
    /\ now < MaxTickTime
    /\ \A c \in Cameras :
          (cams[c].armed /\ InFlight(cams[c]) < MaxCalls) => cams[c].next > now
    /\ now' = now + 1
    /\ UNCHANGED <<pluginEnabled, cams, offTick>>

\* every camera has armed its interval; the scanFs and indexFs that
\* startCheckInterval awaits after that have resolved, or not
TickInit ==
    /\ ShotIdle
    /\ clipDuration = 1 /\ maxLength = 1 /\ minDelayBetweenClips = 0
    /\ SegIdle
    /\ NameIdle
    /\ videoClipsFolder = {}
    /\ thumbnailsFolder = {}
    /\ scanData = {}
    /\ lastIndexFs = 0
    /\ scan = NoScan
    /\ removal = NoRemoval
    /\ videoclips = NoQuery
    /\ indexing = NoIndexing
    /\ closing = NoClosing
    /\ child = NoChild
    /\ stopping = NoStopping
    /\ processPid = 0
    /\ boot = Booted
    /\ osLive = {}
    /\ cams \in [Cameras -> {[NoCam EXCEPT !.armed = TRUE, !.next = 1 + TickPeriod,
                                           !.lastScanFs = f[1], !.lastIndexFs = f[2]]
                                : f \in {<<FALSE, FALSE>>, <<TRUE, FALSE>>,
                                         <<TRUE, TRUE>>}}]
    /\ OccIdle

TickNext ==
    \/ \E c \in Cameras : IntervalFires(c)
    \/ \E c \in Cameras : TickIndexFsResolves(c)
    \/ \E c \in Cameras : TickScanFsResolves(c)
    \/ \E c \in Cameras : \E await \in TickAwaits : TickThrows(c, await)
    \/ \E c \in Cameras : TickRelease(c)
    \/ TickSetPluginEnabled
    \/ TickAdvanceTime

\* the main loops of the cameras
SpecTick == TickInit /\ [][TickNext]_vars

-----------------------------------------------------------------------------
(* The plugin: setMixinOccupancy. Sizes are in thousandths of a GB, the
   settings written with toFixed(2) in hundredths. *)

\* the device ids that report
Reporters == 1..MaxReporters

\* what scanFs of a camera reports: occupiedSpaceInGbNumber and maxSpaceInGb
Reports ==
    {[free |-> t - o, occupied |-> o, total |-> t] :
        o \in {4, 1004, 10005}, t \in {10000, 20000}}

\* Number.toFixed(2), of thousandths, in hundredths
ToFixed2(x) == (x + 5) \div 10

\* this.mixinStorage[deviceId] = data
Store_adding(storage, deviceId, data) ==
    [d \in DOMAIN storage \cup {deviceId} |->
        IF d # deviceId THEN storage[d]
        ELSE IF d \in DOMAIN storage
             THEN [free |-> storage[d].free + data.free,
                   occupied |-> storage[d].occupied + data.occupied,
                   total |-> storage[d].total + data.total]
             ELSE data]

Store(storage, deviceId, data) ==
    [d \in DOMAIN storage \cup {deviceId} |->
        IF d = deviceId THEN data ELSE storage[d]]

\* Object.values(this.mixinStorage).forEach: the three sums
RECURSIVE Totals(_, _)
Totals(storage, ids) ==
    IF ids = {} THEN NoTotal
    ELSE LET d == CHOOSE x \in ids : TRUE
             rest == Totals(storage, ids \ {d})
         IN  [free |-> rest.free + storage[d].free,
              occupied |-> rest.occupied + storage[d].occupied,
              total |-> rest.total + storage[d].total]

\* setMixinOccupancy(deviceId, data)
setMixinOccupancy(deviceId, data) ==
    /\ mixinStorage' = Store(mixinStorage, deviceId, data)
    /\ totalData' = Totals(mixinStorage', DOMAIN mixinStorage')
    /\ occupiedSpaceInGb' = [value |-> ToFixed2(totalData'.occupied),
                             range |-> ToFixed2(totalData'.total)]
    /\ reported' = [d \in DOMAIN reported \cup {deviceId} |->
                       IF d = deviceId
                       THEN [occupied |-> data.occupied,
                             again |-> d \in DOMAIN reported]
                       ELSE reported[d]]
    /\ UNCHANGED offOcc

OccInit ==
    /\ ShotIdle
    /\ clipDuration = 1 /\ maxLength = 1 /\ minDelayBetweenClips = 0
    /\ SegIdle
    /\ NameIdle
    /\ FsIdle

OccNext ==
    \E deviceId \in Reporters : \E data \in Reports :
        setMixinOccupancy(deviceId, data)

\* the reports of the cameras in every order
SpecOcc == OccInit /\ [][OccNext]_vars

-----------------------------------------------------------------------------
(* SpecName: the codec applied to every input within the bounds *)

NameInit ==
    /\ nmPhase = "in"
    /\ nmStart \in 0..MaxNameTime
    /\ nmEnd \in 0..MaxNameTime
    /\ nmClasses \in SUBSET AllClasses
    /\ nmFilename = <<>>
    /\ nmParsed = [startTime |-> 0, endTime |-> 0, detectionClasses |-> {}]
    /\ nmAgain = <<>>
    /\ ShotIdle
    /\ clipDuration = 1 /\ maxLength = 1 /\ minDelayBetweenClips = 0
    /\ SegIdle
    /\ FsIdle

NameEncode ==
    /\ nmPhase = "in"
    /\ nmFilename' = getVideoClipName(nmStart, nmEnd, nmClasses) \o Mp4
    /\ nmPhase' = "named"
    /\ UNCHANGED <<nmStart, nmEnd, nmClasses, nmParsed, nmAgain>>

NameParse ==
    /\ nmPhase = "named"
    /\ videoClipRegexMatch(nmFilename) # <<>>
    /\ nmParsed' = parseVideoClipFile(nmFilename)
    /\ nmPhase' = "parsed"
    /\ UNCHANGED <<nmStart, nmEnd, nmClasses, nmFilename, nmAgain>>

NameEncodeAgain ==
    /\ nmPhase = "parsed"
    /\ nmParsed.startTime # NaN /\ nmParsed.endTime # NaN
    /\ nmAgain' = getVideoClipName(nmParsed.startTime, nmParsed.endTime,
                                   nmParsed.detectionClasses) \o Mp4
    /\ nmPhase' = "done"
    /\ UNCHANGED <<nmStart, nmEnd, nmClasses, nmFilename, nmParsed>>

NameNext == NameEncode \/ NameParse \/ NameEncodeAgain

SpecName ==
    NameInit /\ [][NameNext /\ UNCHANGED <<shotVars, segVars, fsVars, sideVars>>]_vars

\* the detectionsHash of a produced file name: the text between the last "_"
\* and the extension
NameHash(filename) ==
    LET u == Max({i \in 1..Len(filename) : filename[i] = "_"})
    IN  SubSeq(filename, u + 1, Len(filename) - Len(Mp4))

(* C6: the name built by getVideoClipName, with the .mp4 extension, always
   matches videoClipRegex and is parsed into the start time and end time it
   was built from and into the classes {motion} united with the known classes
   among those accumulated; encoding the parsed values again gives the same
   string. *)
C6_FilenameRoundTrip ==
    /\ nmPhase # "in" => videoClipRegexMatch(nmFilename) # <<>>
    /\ nmPhase \in {"parsed", "done"} =>
          /\ nmParsed.startTime = nmStart
          /\ nmParsed.endTime = nmEnd
          /\ nmParsed.detectionClasses =
                {"motion"} \cup (nmClasses \cap KnownClassSet)
    /\ nmPhase = "done" => nmAgain = nmFilename

C6_Witness ==
    /\ nmPhase = "done"
    /\ nmStart = 10 /\ nmEnd = 7
    /\ nmClasses = {"person", "package", OtherClass}

(* C8: the detection bitmap of every produced name has exactly 10 characters,
   each 0 or 1; character 0 (motion) is 1; character 1..6 is 1 exactly when
   person, vehicle, animal, face, plate, package (in that order) is among the
   classes given to getVideoClipName; characters 7..9 are 0. *)
C8_BitmapLayout ==
    nmPhase # "in" =>
        LET h == NameHash(nmFilename)
            at(c) == CASE c = "person" -> 2 [] c = "vehicle" -> 3
                       [] c = "animal" -> 4 [] c = "face" -> 5
                       [] c = "plate" -> 6 [] c = "package" -> 7
        IN  /\ Len(h) = 10
            /\ \A i \in 1..Len(h) : h[i] \in {"0", "1"}
            /\ h[1] = "1"
            /\ \A c \in KnownClassSet \ {"motion"} :
                  (h[at(c)] = "1") <=> (c \in nmClasses)
            /\ \A i \in 8..10 : h[i] = "0"

C8_Witness ==
    /\ nmPhase = "named"
    /\ nmClasses = {"vehicle", "package"}
    /\ NameHash(nmFilename) = <<"1", "0", "1", "0", "0", "0", "1", "0", "0", "0">>

-----------------------------------------------------------------------------
(* Properties of the single-shot recorder *)

\* the session of encoder p exists: Active while the encoder runs, Finalizing
\* from its close until the thumbnail is made and the accumulators are reset
SessionExists(p) ==
    \/ proc[p].state \in {"running", "signalled"}
    \/ fin[p].pc \in {"wait", "thumb"}

(* C2: at most one recording session exists at any instant: no new session
   is started (recordingTimeStart overwritten, a new encoder spawned on the
   temp clip path) while the previous one is Active or Finalizing. *)
C2_OneSession ==
    Cardinality({p \in Procs : SessionExists(p)}) <= 1

(* C3: whenever recording is true (and the mixin has not been released), a
   deadline timer is armed or the encoder has already been signalled to stop,
   whatever the main loop did with resetListeners; without it the session
   never returns to Idle. *)
C3_ActiveHasDeadline ==
    recording /\ ~killed =>
        \/ saveRecordingListener # 0
        \/ proc[saveFfmpegProcess].state = "signalled"

(* C4: while a session is Active, a step taken at elapsed time t with
   t >= maxLength - clipDuration never moves the armed deadline further out,
   and when clipDuration <= maxLength the armed deadline is never later than
   recordingTimeStart + maxLength. *)
C4_DeadlineWithinMaxLength ==
    /\ [](recording /\ saveRecordingListener # 0 /\ clipDuration <= maxLength
            => saveRecordingListener <= recordingTimeStart + maxLength)
    /\ [][recording /\ recording'
            /\ now - recordingTimeStart >= maxLength - clipDuration
            => saveRecordingListener' \in {0, saveRecordingListener}]_vars

C4_Witness ==
    /\ recording
    /\ detectionListener
    /\ clipDuration <= maxLength
    /\ saveRecordingListener > recordingTimeStart + clipDuration
    /\ now - recordingTimeStart >= maxLength - clipDuration

(* C7: every clip the close handler names has endTime > startTime, and its
   startTime is the start of the session whose encoder produced it. *)
C7_ClipTimes ==
    \A c \in clips :
        /\ c.endTime > c.startTime
        /\ c.startTime = c.sessionStart

(* C9: the classes a clip's file name encodes are motion plus exactly the
   classes the event filter accepted during that clip's own session. *)
C9_ClipClasses ==
    \A c \in clips : c.detectionClasses = {"motion"} \cup c.accepted

-----------------------------------------------------------------------------
(* Properties of the segment recorder *)

(* C1: at most one capture process started by the camera is alive in every
   reachable state, whatever the order of main-loop ticks, the periodic
   restart, detections, the finalize path and process exits (concat and
   thumbnail helpers are not captures). *)
C1_OneCapture ==
    Cardinality({p \in Captures : capture[p].state = "alive"}) <= 1

(* C5: an event arriving during an Active session re-arms the deadline only
   if the elapsed time at the event plus postEventSeconds does not exceed
   maxLength. *)
C5_ExtendWithinMaxLength ==
    [][(/\ recording /\ recording'
        /\ recordingTimeStart' = recordingTimeStart
        /\ saveRecordingListener' # 0
        /\ saveRecordingListener' # saveRecordingListener)
       => (now - recordingTimeStart) + postEventSeconds <= maxLength]_vars

(* C10: saveVideoClip gives concat exactly the segments of tmp/ whose index i
   satisfies eventSegment - preEventSeconds <= i <= saveSegment, in ascending
   order, for every eventSegment and saveSegment, 0 included. *)
C10_SegmentSelection ==
    (concatInput.eventSegment # Undefined /\ concatInput.saveSegment # Undefined)
    => concatInput.segments =
          SortByIndex({i \in concatInput.allSegments :
                          /\ concatInput.eventSegment - preEventSeconds <= i
                          /\ i <= concatInput.saveSegment})

-----------------------------------------------------------------------------
(* Properties of the detection and motion listeners *)

(* C11: a detection batch in which no detection has an enabled class and a
   score of at least scoreThreshold never starts a session, never moves the
   deadline and never changes the accumulated classes, whether the camera is
   Idle or recording. *)
C11_RejectedBatchInert ==
    [][\A batch \in Batches :
          ((\A d \in batch : ~OldDetectionPasses(d)) /\ OldObjectsDetected(batch))
          => UNCHANGED <<recording, recordingTimeStart, saveRecordingListener,
                         classesDetected>>]_vars

\* a detection of an enabled class with a score of at least scoreThreshold
\* and a bounding box
Qualifying(d) ==
    /\ d.className \in KnownClassSet \ {"motion"}
    /\ d.score >= 70
    /\ d.boundingBox

\* the camera is Idle: nothing is recording and no session is being finalized
Idle ==
    /\ ~recording
    /\ \A p \in Procs : ~SessionExists(p)

\* a session starts at the current clock reading with its deadline armed
SessionStarts ==
    /\ recording'
    /\ recordingTimeStart' = now
    /\ saveRecordingListener' = now + clipDuration

(* C12, as stated: a batch that contains a qualifying detection starts a
   session whenever the camera is Idle, and re-arms the deadline of a recording
   session whose elapsed time plus clipDuration is below maxLength. *)
C12_QualifyingStartsOrExtends ==
    [][\A batch \in Batches :
          ((\E d \in batch : Qualifying(d)) /\ ObjectsDetected(batch))
          => /\ Idle => SessionStarts
             /\ (recording /\ (now - recordingTimeStart) + clipDuration < maxLength)
                    => /\ recording'
                       /\ saveRecordingListener' = now + clipDuration]_vars

(* C12, amended: the same, where a session starts from Idle only if no clip
   was recorded within the last minDelayBetweenClips; within that delay the
   batch is dropped and the camera stays Idle. *)
C12_QualifyingStartsOrExtendsAfterDelay ==
    [][\A batch \in Batches :
          ((\E d \in batch : Qualifying(d)) /\ ObjectsDetected(batch))
          => /\ (~recording /\ (lastClipRecordedTime = 0
                                 \/ now - lastClipRecordedTime >= minDelayBetweenClips))
                    => SessionStarts
             /\ (~recording /\ lastClipRecordedTime # 0
                            /\ now - lastClipRecordedTime < minDelayBetweenClips)
                    => UNCHANGED <<recording, recordingTimeStart, saveRecordingListener>>
             /\ (recording /\ (now - recordingTimeStart) + clipDuration < maxLength)
                    => /\ recording'
                       /\ saveRecordingListener' = now + clipDuration]_vars

\* a session started by a detection has been extended by a later one
C12_Witness ==
    /\ recording
    /\ recordingTimeStart < now
    /\ saveRecordingListener = now + clipDuration
    /\ proc[saveFfmpegProcess].state = "running"
    /\ classesDetected = {"person"}

(* C13: extension debounce. While a session is recording its deadline is
   re-armed by an extension at most once within one second: two qualifying
   detections that arrive at the same clock reading (less than a second
   apart) re-arm the deadline at most once. *)
C13_ExtensionDebounced ==
    recording => extendResets <= 1

(* C14: motion events are debounced on their own. Whenever the motion
   listener would drop an event arriving now, a motion event was accepted less
   than a second ago; whether an object detection was accepted in that second
   plays no part. *)
C14_MotionDebouncedIndependently ==
    (detectionListener /\ MotionDebounced(now))
        => (lastMotionAccepted # 0 /\ now - lastMotionAccepted < 1)

\* the step is a motion event that the motion listener lets through
MotionEventAccepted ==
    /\ MotionDetected(TRUE)
    /\ lastMotionAccepted # now
    /\ lastMotionAccepted' = now

\* the session and its deadline are left as they are
SessionUntouched ==
    UNCHANGED <<recording, recordingTimeStart, saveRecordingListener>>

\* the deadline of a recording session within the extension bound is re-armed
SessionExtends ==
    (recording /\ (now - recordingTimeStart) + clipDuration < maxLength)
        => /\ recording'
           /\ recordingTimeStart' = recordingTimeStart
           /\ saveRecordingListener' = now + clipDuration

(* C15, as stated: with Motion among the detection classes an accepted motion
   event starts a session from Idle or extends a recording one; with Motion
   not among them and prolongClipOnMotion set it extends a recording session
   and leaves an Idle camera Idle; with neither it leaves the session and the
   deadline alone. *)
C15_MotionFollowsConfiguration ==
    [][MotionEventAccepted
       => /\ isMotionIncluded
                => /\ Idle => SessionStarts
                   /\ SessionExtends
          /\ (~isMotionIncluded /\ prolongClipOnMotion)
                => /\ ~recording => SessionUntouched
                   /\ SessionExtends
          /\ (~isMotionIncluded /\ ~prolongClipOnMotion)
                => SessionUntouched]_vars

(* C15, amended: the same, where with Motion among the detection classes a
   session starts from Idle only if no clip was recorded within the last
   minDelayBetweenClips, and the event is dropped within that delay. *)
C15_MotionFollowsConfigurationAfterDelay ==
    [][MotionEventAccepted
       => /\ isMotionIncluded
                => /\ ~recording
                        => IF lastClipRecordedTime # 0
                              /\ now - lastClipRecordedTime < minDelayBetweenClips
                           THEN SessionUntouched
                           ELSE SessionStarts
                   /\ SessionExtends
          /\ (~isMotionIncluded /\ prolongClipOnMotion)
                => /\ ~recording => SessionUntouched
                   /\ SessionExtends
          /\ (~isMotionIncluded /\ ~prolongClipOnMotion)
                => SessionUntouched]_vars

\* a session started by a detection has been prolonged by a later motion
\* event, Motion not being a detection class
C15_Witness ==
    /\ ~isMotionIncluded
    /\ prolongClipOnMotion
    /\ recording
    /\ recordingTimeStart < now
    /\ lastMotionAccepted = now
    /\ "motion" \in proc[saveFfmpegProcess].accepted
    /\ saveRecordingListener = now + clipDuration

-----------------------------------------------------------------------------
(* Properties of the clip store *)

\* a scanFs or removeVideoClips call has returned or thrown
PassFinished ==
    \/ scan.pc \in {"done", "failed"}
    \/ removal.pc \in {"done", "failed"}

(* C16: after a scanFs pass or a removeVideoClips call has finished, with or
   without an error, every id has its video file and its thumbnail both
   present or both absent. *)
C16_PairsRemovedTogether ==
    PassFinished
        => \A f \in (videoClipsFolder \ {TmpClipFilename})
                        \cup {id \o Mp4 : id \in thumbnailsFolder} :
                f \in videoClipsFolder <=> Stem(f) \in thumbnailsFolder

\* what a scanFs call has removed from videoclips/
ScanDeleted == scan.files \ videoClipsFolder

(* C17: a scanFs call whose rm calls all succeed deletes clips if and only if
   maxSpaceInGb - occupied <= 10; it then deletes exactly 10 clips, those with
   the smallest start times, each with its thumbnail; with more free space it
   deletes nothing. *)
C17_EvictsBatchOfOldest ==
    (scan.pc \in {"done", "failed"} /\ scan.error # "rm")
        => IF scan.freeMemory <= 10
           THEN /\ Cardinality(ScanDeleted) = 10
                /\ \A d \in ScanDeleted :
                      /\ Stem(d) \notin thumbnailsFolder
                      /\ \A k \in videoClipsFolder \ {TmpClipFilename} :
                            TimeStart(d) < TimeStart(k)
           ELSE /\ videoClipsFolder = scan.files
                /\ thumbnailsFolder = scan.thumbnails

\* the clips of the batch of a scanFs call
ScanBatch ==
    {scan.fileDetails[k] : k \in 1..Min(10, Len(scan.fileDetails))}

(* C18: when a scanFs pass that deletes has ended, every clip of its batch is
   gone with its thumbnail, apart from the files whose own deletion failed: a
   failed deletion does not keep the rest of the batch on disk. *)
C18_FailureDoesNotAbortBatch ==
    (scan.pc \in {"done", "failed"} /\ scan.freeMemory <= 10)
        => \A f \in ScanBatch :
              (f \notin scan.failed /\ Stem(f) \notin scan.failed)
                 => /\ f \notin videoClipsFolder
                    /\ Stem(f) \notin thumbnailsFolder

\* a name of the form start_end_bitmap.mp4: two numbers and a text of 0s and 1s
WellFormed(name) ==
    LET m == videoClipRegexMatch(name)
    IN  /\ m # <<>>
        /\ m[1] = name
        /\ Len(m[2]) > 0 /\ Number(m[2]) # NaN
        /\ Len(m[3]) > 0 /\ Number(m[3]) # NaN
        /\ Len(m[4]) > 0 /\ \A k \in 1..Len(m[4]) : m[4][k] \in {"0", "1"}

(* C19: a pass of indexFs leaves in the catalog exactly the entries of
   videoclips/ that end in .mp4, are named start_end_bitmap, can be stat'ed
   and are not the temp clip, each with the times and classes of its name;
   every other entry is skipped. *)
C19_CatalogOfParseableClips ==
    [][\A unstatable \in SUBSET CatalogEntries :
          IndexFs(unstatable)
          => scanData' = {FileData(f) :
                            f \in {g \in videoClipsFolder \ unstatable :
                                      /\ EndsWithMp4(g)
                                      /\ g # TmpClipFilename
                                      /\ WellFormed(g)}}]_vars

(* C20: getVideoClips(startTime, endTime) returns one entry for every clip of
   the catalog whose window from its start time to its end time overlaps the
   requested range and none for any other clip; the entry has the clip's id,
   its start time, its end time minus its start time as duration and its main
   detection class. *)
C20_ClipsOverlappingRange ==
    [][\A startTime \in QueryTimes, endTime \in QueryTimes :
          GetVideoClips(startTime, endTime)
          => videoclips'.clips =
                {[id |-> item.filename,
                  startTime |-> item.startTime,
                  duration |-> item.endTime - item.startTime,
                  event |-> getMainDetectionClass(item.detectionClasses)] :
                 item \in {x \in scanData :
                              /\ x.startTime <= endTime
                              /\ x.endTime >= startTime}}]_vars

(* C21: every clip whose finalize has completed, and whose file is in the
   clip directory, is listed in the catalog, whatever the interleaving of
   onClose with a pass of indexFs. *)
C21_FinalizedClipListed ==
    \A f \in closing.finalized :
        f \in videoClipsFolder => FileData(f) \in scanData

\* the capture the field refers to has exited on its own
CaptureCrashed ==
    /\ segmentsFfmpegProcess # 0
    /\ capture[segmentsFfmpegProcess].state = "crashed"

(* C22: segment variant: while the capture has exited on its own and the main
   loop is armed on an enabled camera, the next tick starts a new capture. *)
C22_CrashRestartsCapture ==
    (CaptureCrashed /\ mainLoopListener /\ ~killed /\ pluginEnabled)
        => SegTickStarts

(* C23: every call of stopCapture resolves. *)
C23_StopCaptureResolves ==
    (stopping.pc # "idle") ~> (stopping.pc = "resolved")

(* C24: once release() has run, no encoder started by the camera is running
   (spawned and neither signalled nor closed). *)
C24_NoEncoderAfterRelease ==
    killed => \A p \in Procs : proc[p].state # "running"

\* this step spawns an encoder
PidSpawned == saveFfmpegProcess' # saveFfmpegProcess /\ saveFfmpegProcess' # 0

\* this step is the startup from its process.kill on
StartupRuns == boot.pc = "ffmpegPath" /\ boot'.pc = "done"

(* C25: a spawn of an encoder leaves its process id in processPid, and it
   happens only after the startup has cleared the setting; the startup calls
   process.kill with the persisted id, if there is one, and leaves the
   setting cleared, whether or not that call threw. *)
C25_PidPersistedAndCleared ==
    [][/\ PidSpawned => (processPid' = saveFfmpegProcess' /\ boot.cleared)
       /\ StartupRuns => (processPid' = 0 /\ boot'.killCalled = processPid)]_vars

\* a startup whose process.kill threw has been followed by a spawn
C25_Witness ==
    /\ boot.pc = "done" /\ boot.killCalled # 0 /\ boot.failed
    /\ saveFfmpegProcess # 0 /\ processPid = saveFfmpegProcess

(* C26: for every camera, at most one interval callback has started and not
   returned. *)
C26_OneTickAtATime ==
    \A c \in Cameras : InFlight(cams[c]) <= 1

\* this step is a throw that reaches the catch of a callback of camera c
TickCaught(c) == InFlight(cams'[c]) < InFlight(cams[c]) /\ cams'[c].caught

(* C30: when an awaited call of an interval callback throws, the interval of
   that camera stays as it was, armed with the same next firing, and the
   other cameras are left as they were. *)
C30_ThrowCaughtAtTick ==
    [][\A c \in Cameras :
          TickCaught(c)
          => /\ cams'[c].armed = cams[c].armed
             /\ cams'[c].next = cams[c].next
             /\ \A d \in Cameras \ {c} : cams'[d] = cams[d]]_vars

\* the interval of a camera has fired again after a throw was caught, while
\* another camera has a callback at an await
C30_Witness ==
    \E c \in Cameras :
        /\ cams[c].armed /\ cams[c].caught /\ cams[c].ranAfterCatch
        /\ \E d \in Cameras \ {c} : InFlight(cams[d]) > 0

\* the sum of the occupied values last reported by each camera
RECURSIVE SumReported(_)
SumReported(ids) ==
    IF ids = {} THEN 0
    ELSE LET d == CHOOSE x \in ids : TRUE
         IN  reported[d].occupied + SumReported(ids \ {d})

(* C27: after any sequence of setMixinOccupancy calls the occupied total of
   the plugin is the sum, over the cameras that reported, of the value each
   reported last, and the setting is that total written with two decimals. *)
C27_TotalIsSumOfLatest ==
    /\ totalData.occupied = SumReported(DOMAIN reported)
    /\ occupiedSpaceInGb.value = ToFixed2(SumReported(DOMAIN reported))

\* every camera has reported, one of them more than once
C27_Witness ==
    /\ DOMAIN reported = Reporters
    /\ \E d \in Reporters : reported[d].again
    /\ totalData.occupied = 4 + 1004 + 10005
    /\ occupiedSpaceInGb.value = 1101

\* onClose of encoder p gives up in this step, on a camera that is not
\* released, not recording and has no other session
GivesUp(p) ==
    /\ fin[p].pc = "wait" /\ fin'[p].pc = "lost"
    /\ ~recording' /\ ~killed
    /\ \A q \in Procs \ {p} : ~SessionExists(q)

(* C28: when onClose gives up after its checks for the temp file, no clip is
   stored for the session and the classes accumulated for it are reset. *)
C28_LostSessionResets ==
    [][\A p \in Procs :
          GivesUp(p) => (clips' = clips /\ classesDetected' = {})]_vars

(* C29: single-shot variant: a session whose encoder exited on its own, not
   on the stop sent at the deadline, leaves no clip in the clip directory. *)
C29_CrashedSessionStoresNothing ==
    \A c \in clips : proc[c.by].state # "crashed"

(* C31: minimum delay between clips: a session that follows another one
   starts after the encoder of the earlier one has closed, and no earlier
   than minDelayBetweenClips after that close. *)
C31_MinDelayBetweenClips ==
    \A p \in Procs :
        (p + 1 \in Procs /\ proc[p + 1].state # "unborn")
        => /\ fin[p].pc # "none"
           /\ proc[p + 1].startedAt >= fin[p].endTime + minDelayBetweenClips

\* with a delay of one second, a second session has started exactly one second
\* after the encoder of the first one closed
C31_Witness ==
    /\ minDelayBetweenClips = 1
    /\ proc[2].state # "unborn"
    /\ proc[2].startedAt = fin[1].endTime + 1

(* C32: segment variant: the eventSegment a session takes when it starts is
   undefined or the index of a segment opened by the capture that is current
   at that moment. *)
C32_EventSegmentOfCurrentCapture ==
    [][(~recording /\ recording')
          => \/ eventSegment' = Undefined
             \/ /\ segmentsFfmpegProcess # 0
                /\ eventSegment' < capture[segmentsFfmpegProcess].next]_vars

\* the capture has run for the restart period and the field holds a process
RestartDue ==
    /\ lastRunStart # 0 /\ now - lastRunStart >= RestartPeriod
    /\ segmentsFfmpegProcess # 0

(* C33: segment variant, on an enabled camera that is not released: a tick
   at or after the restart period stops the capture in the field, clears the
   scratch directory, spawns exactly one capture and sets lastRunStart; a
   tick before it leaves every alive capture alive. *)
C33_PeriodicRestart ==
    [][(SegMainLoopTick /\ pluginEnabled /\ ~killed)
          => IF RestartDue
             THEN /\ capture'[segmentsFfmpegProcess].state # "alive"
                  /\ Cardinality({p \in Captures : /\ capture[p].state = "unborn"
                                                   /\ capture'[p].state = "alive"}) = 1
                  /\ capture'[segmentsFfmpegProcess'].state = "alive"
                  /\ segmentsFfmpegProcess' # segmentsFfmpegProcess
                  /\ tmpFolder' = {}
                  /\ lastRunStart' = now
             ELSE \A p \in Captures :
                      capture[p].state = "alive" => capture'[p].state = "alive"]_vars

\* the first capture wrote segments, was stopped by the periodic restart and
\* the second one runs on an empty scratch directory
C33_Witness ==
    /\ lastRunStart = 1 + RestartPeriod /\ now = lastRunStart
    /\ segmentsFfmpegProcess = 2
    /\ capture[1].state = "exited" /\ capture[1].next > 0
    /\ capture[2].state = "alive"
    /\ tmpFolder = {}
    /\ ~recording /\ concats = 0 /\ pluginEnabled /\ ~killed

(* C34: segment variant: at most one ObjectDetector listener and at most one
   segment-retention interval are registered for the camera at any time. *)
C34_SingleListeners ==
    registered <= 1

(* C35: segment variant: while a session is active and its clip has not been
   assembled yet, no step removes from the scratch directory a segment whose
   index is at or above eventSegment - preEventSeconds. *)
C35_SessionSegmentsKept ==
    [][(recording /\ concats = 0 /\ eventSegment # Undefined)
          => \A s \in tmpFolder :
                 s >= eventSegment - preEventSeconds => s \in tmpFolder']_vars

(* C36: the catalog never holds two entries with the same filename: the push
   at the end of onClose (scanData is kept as the set of its entries, so a
   second entry for a filename arises exactly when the push finds one already
   there) never adds an entry for a filename the catalog already lists,
   whatever pass of indexFs ran in between. *)
C36_NoDuplicateFilename ==
    [][(closing.pc = "push" /\ closing'.pc = "idle"
        /\ Parses(closing.filename \o Mp4, {}))
          => \A x \in scanData :
                 x.filename # FileData(closing.filename \o Mp4).filename]_vars

(* C37: every clip getVideoClips returns has its video file in the clip
   directory, also after removeVideoClips or an eviction pass of scanFs has
   deleted clips. *)
C37_ListedClipOnDisk ==
    [][\A startTime \in QueryTimes, endTime \in QueryTimes :
          GetVideoClips(startTime, endTime)
          => \A c \in videoclips'.clips : c.id \o Mp4 \in videoClipsFolder]_vars

(* C38: a scanFs pass that evicts from a clip directory of fewer than
   clipsToCleanup clips does not end with the TypeError of the batch loop (it
   goes on to record lastScanFs). *)
C38_SmallFolderScanCompletes ==
    (/\ scan.pc # "idle"
     /\ scan.freeMemory <= cleanupMemoryThresholderInGb
     /\ Len(scan.fileDetails) < clipsToCleanup)
        => ~(scan.pc = "failed" /\ scan.error = "TypeError")

\* this step is the close handler of the mixin's encoder running to its end
PidClosed ==
    /\ saveFfmpegProcess \in osLive
    /\ saveFfmpegProcess \notin osLive'
    /\ boot' = boot

(* C39: the close handler of the encoder leaves processPid cleared on every
   one of its paths, the one where the output file is never found included. *)
C39_CloseClearsPid ==
    [][PidClosed => processPid' = 0]_vars

(* C40: a tick of a camera that is not released, with the plugin switched
   off, removes the listeners and keeps the interval; while the plugin is off
   and the listeners are stopped no session starts; a tick with the plugin
   switched on leaves exactly one listener pair registered. *)
C40_PluginSwitch ==
    [][/\ (MainLoopTick /\ ~killed /\ ~pluginEnabled)
            => /\ listeners' = 0 /\ ~detectionListener' /\ ~running'
               /\ mainLoopListener'
       /\ (~pluginEnabled /\ ~running) => ~(~recording /\ recording')
       /\ (MainLoopTick /\ ~killed /\ pluginEnabled)
            => /\ listeners' = 1 /\ detectionListener' /\ running'
               /\ mainLoopListener']_vars

\* the plugin was switched off during the first session, whose deadline the
\* tick cleared, and switched on again: the next tick has registered the
\* listeners
C40_Witness ==
    /\ pluginEnabled /\ ~killed /\ mainLoopListener
    /\ running /\ detectionListener /\ listeners = 1
    /\ recording /\ saveFfmpegProcess = 1 /\ proc[1].state = "running"
    /\ saveRecordingListener = 0
=============================================================================
